---- MODULE Spec2Model ----
(***************************************************************************)
(* A model of the Oracle APEX JS Logger: the configuration store           *)
(* (src/src/logger-config.js), the logger (src/src/logger.js, lines 1-652) *)
(* and the buffered logger (src/src/logger.js, lines 654-1570).            *)
(*                                                                         *)
(* JavaScript values are tagged records: [t |-> "string", v |-> "abc"],    *)
(* [t |-> "number", v |-> 3], [t |-> "undefined"], ...  JavaScript strings *)
(* are TLA+ strings; Len, \o and SubSeq act on them character by           *)
(* character.                                                              *)
(***************************************************************************)
EXTENDS Integers, Sequences, FiniteSets, TLC

VARIABLES
  currentConfig,  \* logger-config.js: the live configuration record
  timingUnits,    \* logger.js: unit name -> start time (own properties)
  now,            \* the value performance.now() returns
  console,        \* the lines written to the browser console, in order
  sends,          \* one record per _sendToServer closure (entry, counters)
  calls,          \* the number of log entries created so far
  last,           \* the most recent call of the public API and its result
  levelArg,       \* the level named by the latest configure/setLevel call
  bconfig,        \* buffered logger: its own configuration record
  btimingUnits,   \* buffered logger: unit name -> start time
  started,        \* history: unit -> time of its latest timeStart, for the
                  \* units started since their last timeStop
  defaultConfig,  \* logger-config.js: the DEFAULT_CONFIG object
  moduleExtra,    \* module logger name -> its persistent extra (moduleExtra)
  extraSet,       \* history: module logger name -> the argument of its
                  \* latest setExtra, undefined after clearExtra
  logBuffer,      \* buffered logger: the entries waiting for a flush
  flushTimer,     \* buffered logger: a flush is scheduled
  flushArmed,     \* history: performance.now() when the scheduled flush
                  \* was scheduled
  btimingKeys,    \* buffered logger: Object.keys(timingUnits), the units in
                  \* the order in which they became properties
  intervals,      \* five-minute periods elapsed since the scripts loaded
  currentContext  \* buffered logger: the context set by setContext, or null

\* the state of the module loggers, the defaults and the buffer
others ==
  <<defaultConfig, moduleExtra, extraSet, logBuffer, flushTimer, flushArmed,
    btimingKeys, intervals, currentContext>>

vars == <<currentConfig, timingUnits, now, console, sends, calls, last, levelArg,
          bconfig, btimingUnits, started, others>>

(***************************************************************************)
(* Bounds of the model.                                                    *)
(***************************************************************************)
MaxCalls == 2        \* public API calls in one behaviour
MaxSends == 1        \* entries handed to the delivery client
MaxRetryCount == 2   \* largest retryCount configured
MaxTime == 1         \* largest value of performance.now()
MaxIntervals == 1    \* five-minute periods in one behaviour
MaxEntries == 3      \* entries retrying side by side

(***************************************************************************)
(* JavaScript values.                                                      *)
(***************************************************************************)
Undefined == [t |-> "undefined"]
Null == [t |-> "null"]
NaN == [t |-> "NaN"]
Fn == [t |-> "function"]
Thrown == [t |-> "throw"]
Str(s) == [t |-> "string", v |-> s]
Num(n) == [t |-> "number", v |-> n]
Bool(b) == [t |-> "boolean", v |-> b]
\* props: the own enumerable properties in insertion order; cyc: the object
\* graph holds a reference cycle; proto: the object inherits from
\* Object.prototype (FALSE for Object.create(null))
Obj(props) == [t |-> "object", props |-> props, cyc |-> FALSE, proto |-> TRUE]

typeof(x) == IF x.t = "NaN" THEN "number" ELSE x.t

\* ToBoolean: undefined, null, 0, NaN, "" and false are falsy
Truthy(x) ==
  CASE x.t = "undefined" -> FALSE
    [] x.t = "null" -> FALSE
    [] x.t = "NaN" -> FALSE
    [] x.t = "number" -> x.v # 0
    [] x.t = "string" -> x.v # ""
    [] x.t = "boolean" -> x.v
    [] OTHER -> TRUE

\* a === b
StrictEq(a, b) == a.t # "NaN" /\ a = b

\* a <= b on operands that are numbers or undefined: undefined converts to
\* NaN and every comparison with NaN is false
JsLE(a, b) == a.t = "number" /\ b.t = "number" /\ a.v <= b.v

UpperChar(c) ==
  CASE c = "a" -> "A" [] c = "b" -> "B" [] c = "c" -> "C" [] c = "d" -> "D"
    [] c = "e" -> "E" [] c = "f" -> "F" [] c = "g" -> "G" [] c = "h" -> "H"
    [] c = "i" -> "I" [] c = "j" -> "J" [] c = "k" -> "K" [] c = "l" -> "L"
    [] c = "m" -> "M" [] c = "n" -> "N" [] c = "o" -> "O" [] c = "p" -> "P"
    [] c = "q" -> "Q" [] c = "r" -> "R" [] c = "s" -> "S" [] c = "t" -> "T"
    [] c = "u" -> "U" [] c = "v" -> "V" [] c = "w" -> "W" [] c = "x" -> "X"
    [] c = "y" -> "Y" [] c = "z" -> "Z" [] OTHER -> c

LowerChar(c) ==
  CASE c = "A" -> "a" [] c = "B" -> "b" [] c = "C" -> "c" [] c = "D" -> "d"
    [] c = "E" -> "e" [] c = "F" -> "f" [] c = "G" -> "g" [] c = "H" -> "h"
    [] c = "I" -> "i" [] c = "J" -> "j" [] c = "K" -> "k" [] c = "L" -> "l"
    [] c = "M" -> "m" [] c = "N" -> "n" [] c = "O" -> "o" [] c = "P" -> "p"
    [] c = "Q" -> "q" [] c = "R" -> "r" [] c = "S" -> "s" [] c = "T" -> "t"
    [] c = "U" -> "u" [] c = "V" -> "v" [] c = "W" -> "w" [] c = "X" -> "x"
    [] c = "Y" -> "y" [] c = "Z" -> "z" [] OTHER -> c

\* the characters lo..hi of s in upper case, half by half
RECURSIVE UpperRange(_, _, _)
UpperRange(s, lo, hi) ==
  IF lo > hi THEN ""
  ELSE IF lo = hi THEN UpperChar(SubSeq(s, lo, lo))
  ELSE UpperRange(s, lo, (lo + hi) \div 2)
         \o UpperRange(s, (lo + hi) \div 2 + 1, hi)

\* the characters lo..hi of s in lower case, half by half
RECURSIVE LowerRange(_, _, _)
LowerRange(s, lo, hi) ==
  IF lo > hi THEN ""
  ELSE IF lo = hi THEN LowerChar(SubSeq(s, lo, lo))
  ELSE LowerRange(s, lo, (lo + hi) \div 2)
         \o LowerRange(s, (lo + hi) \div 2 + 1, hi)

toUpperCase(s) == UpperRange(s, 1, Len(s))

toLowerCase(s) == LowerRange(s, 1, Len(s))

\* s.substring(0, n)
substring(s, n) == SubSeq(s, 1, IF n < Len(s) THEN n ELSE Len(s))

\* s.includes(f)
includes(s, f) ==
  \E i \in 1..(Len(s) + 1) :
    i + Len(f) - 1 <= Len(s) /\ SubSeq(s, i, i + Len(f) - 1) = f

Digit(d) ==
  CASE d = 0 -> "0" [] d = 1 -> "1" [] d = 2 -> "2" [] d = 3 -> "3"
    [] d = 4 -> "4" [] d = 5 -> "5" [] d = 6 -> "6" [] d = 7 -> "7"
    [] d = 8 -> "8" [] OTHER -> "9"

\* String(n) of a natural number
RECURSIVE NumToString(_)
NumToString(n) ==
  IF n < 10 THEN Digit(n) ELSE NumToString(n \div 10) \o Digit(n % 10)

(***************************************************************************)
(* logger-config.js                                                        *)
(***************************************************************************)
LOG_LEVELS ==
  [OFF |-> 0, PERMANENT |-> 1, ERROR |-> 2, WARNING |-> 4, INFORMATION |-> 8,
   DEBUG |-> 16, TIMING |-> 32, SYS_CONTEXT |-> 64, APEX |-> 128]

\* LOG_LEVELS[name]: undefined for a name that is no key of the table
LevelNum(name) ==
  IF name \in DOMAIN LOG_LEVELS THEN Num(LOG_LEVELS[name]) ELSE Undefined

DEFAULT_CONFIG ==
  [level |-> "INFORMATION",
   enableConsole |-> TRUE,
   enableServer |-> TRUE,
   retryCount |-> 1,
   enableDataMasking |-> TRUE,
   sensitiveFields |-> <<"password", "token", "ssn">>,
   maxDataSize |-> 10000,
   maxTimingUnits |-> 100]

\* Object.assign(target, source) on records
ObjectAssign(target, source) ==
  [k \in (DOMAIN target) \cup (DOMAIN source) |->
     IF k \in DOMAIN source THEN source[k] ELSE target[k]]

\* a getCurrentConfig() that returns a copy made when the script loaded
getConfigCopy == DEFAULT_CONFIG

\* getCurrentConfig(): the reference logger.js keeps as its `config`
getCurrentConfig == currentConfig

config == getCurrentConfig

(***************************************************************************)
(* JSON.stringify and String on the values of the model.                   *)
(***************************************************************************)
BigInt(n) == [t |-> "bigint", v |-> n]

\* the characters JSON.stringify escapes inside a string literal
EscapeChar(c) ==
  IF c = "\"" THEN "\\\"" ELSE IF c = "\\" THEN "\\\\" ELSE c

\* the characters lo..hi of s escaped, half by half
RECURSIVE EscapeRange(_, _, _)
EscapeRange(s, lo, hi) ==
  IF lo > hi THEN ""
  ELSE IF lo = hi THEN EscapeChar(SubSeq(s, lo, lo))
  ELSE EscapeRange(s, lo, (lo + hi) \div 2)
         \o EscapeRange(s, (lo + hi) \div 2 + 1, hi)

Escape(s) == EscapeRange(s, 1, Len(s))

\* JSON.stringify(x): Str(text), Undefined (a function has no JSON form) or
\* Thrown (a reference cycle, a BigInt)
RECURSIVE JSONstringify(_)
RECURSIVE Members(_, _)
JSONstringify(x) ==
  CASE x.t = "string" -> Str("\"" \o Escape(x.v) \o "\"")
    [] x.t = "number" -> Str(NumToString(x.v))
    [] x.t = "NaN" -> Str("null")
    [] x.t = "boolean" -> Str(IF x.v THEN "true" ELSE "false")
    [] x.t = "bigint" -> Thrown
    [] x.t = "object" ->
         IF x.cyc THEN Thrown ELSE Str("{" \o Members(x.props, "") \o "}")
    [] OTHER -> Undefined

\* the members of an object literal; a property whose value has no JSON form
\* is left out
Members(props, sep) ==
  IF props = <<>> THEN ""
  ELSE LET p == Head(props)
           j == JSONstringify(p.v)
       IN IF j.t # "string" THEN Members(Tail(props), sep)
          ELSE sep \o "\"" \o Escape(p.k) \o "\":" \o j.v
                 \o Members(Tail(props), ",")

\* String(x): Thrown for an object that has no toString to inherit
String(x) ==
  CASE x.t = "string" -> Str(x.v)
    [] x.t = "number" -> Str(NumToString(x.v))
    [] x.t = "bigint" -> Str(NumToString(x.v))
    [] x.t = "NaN" -> Str("NaN")
    [] x.t = "boolean" -> Str(IF x.v THEN "true" ELSE "false")
    [] x.t = "undefined" -> Str("undefined")
    [] x.t = "function" -> Str("function () {}")
    [] OTHER -> IF x.proto THEN Str("[object Object]") ELSE Thrown

MASKED == "***MASKED***"

(***************************************************************************)
(* logger.js: the sanitizer.  The closure variable `config` of the source  *)
(* is the parameter cfg: the logger passes its live configuration, the     *)
(* buffered logger its own record.                                         *)
(***************************************************************************)
\* sensitiveFields.some(function (field) { return lowerKey.includes(field) })
isSensitive(key, sensitiveFields) ==
  \E i \in 1..Len(sensitiveFields) :
    includes(toLowerCase(key), sensitiveFields[i])

\* a mask that keeps the value between the stars
_maskSensitiveFieldsKeeping(cfg, data) ==
  IF ~cfg.enableDataMasking \/ ~Truthy(data) \/ typeof(data) # "object"
  THEN data
  ELSE IF ~data.proto THEN Thrown
  ELSE Obj([i \in 1..Len(data.props) |->
              [k |-> data.props[i].k,
               v |-> IF isSensitive(data.props[i].k, cfg.sensitiveFields)
                     THEN Str("***" \o String(data.props[i].v).v \o "***")
                     ELSE data.props[i].v]])

\* _maskSensitiveFields(data); data.hasOwnProperty is no function on an
\* object without prototype, and the call throws
_maskSensitiveFields(cfg, data) ==
  IF ~cfg.enableDataMasking \/ ~Truthy(data) \/ typeof(data) # "object"
  THEN data
  ELSE IF ~data.proto THEN Thrown
  ELSE Obj([i \in 1..Len(data.props) |->
              [k |-> data.props[i].k,
               v |-> IF isSensitive(data.props[i].k, cfg.sensitiveFields)
                     THEN Str(MASKED)
                     ELSE data.props[i].v]])

\* the truncation wrapper of _sanitizeData
Truncated(dataStr, maxDataSize) ==
  Obj(<<[k |-> "_truncated", v |-> Bool(TRUE)],
        [k |-> "_originalSize", v |-> Num(Len(dataStr))],
        [k |-> "data", v |-> Str(substring(dataStr, maxDataSize) \o "...")]>>)

\* the catch block of _sanitizeData: String(data) is evaluated inside it, so
\* an exception of String(data) leaves _sanitizeData
SerializeError(data) ==
  LET s == String(data) IN
  IF s.t = "throw" THEN Thrown
  ELSE Obj(<<[k |-> "_error", v |-> Str("Could not serialize data")],
             [k |-> "_type", v |-> Str(typeof(data))],
             [k |-> "_string", v |-> Str(substring(s.v, 100))]>>)

\* the try block of _sanitizeData once JSON.stringify(data) has given
\* dataStr: the size test, then the mask; an exception of either is caught
Sanitized(cfg, data, dataStr, masked) ==
  IF dataStr.t # "string" THEN SerializeError(data)
  ELSE IF Len(dataStr.v) > cfg.maxDataSize
       THEN Truncated(dataStr.v, cfg.maxDataSize)
  ELSE IF masked.t = "throw" THEN SerializeError(data)
  ELSE masked

\* _sanitizeData(data): the sanitized value, or Thrown when the catch block
\* itself throws
_sanitizeData(cfg, data) ==
  IF ~Truthy(data) THEN data
  ELSE Sanitized(cfg, data, JSONstringify(data),
                 _maskSensitiveFields(cfg, data))

(***************************************************************************)
(* logger-utils.js: the sanitizer, with its options passed in              *)
(***************************************************************************)
\* maskSensitiveFields(data, sensitiveFields, enableMasking)
maskSensitiveFields(data, sensitiveFields, enableMasking) ==
  IF ~enableMasking \/ ~Truthy(data) \/ typeof(data) # "object" THEN data
  ELSE IF ~data.proto THEN Thrown
  ELSE Obj([i \in 1..Len(data.props) |->
              [k |-> data.props[i].k,
               v |-> IF \E j \in 1..Len(sensitiveFields) :
                          includes(toLowerCase(data.props[i].k),
                                   toLowerCase(sensitiveFields[j]))
                     THEN Str(MASKED)
                     ELSE data.props[i].v]])

\* sanitizeData(data, options); options.maxDataSize || 10000
sanitizeData(data, options) ==
  IF ~Truthy(data) THEN data
  ELSE Sanitized([maxDataSize |-> IF options.maxDataSize = 0 THEN 10000
                                  ELSE options.maxDataSize],
                 data, JSONstringify(data),
                 maskSensitiveFields(data, options.sensitiveFields,
                                     options.enableDataMasking))

(***************************************************************************)
(* logger.js: the level filter                                             *)
(***************************************************************************)
\* levelNum and configNum of _shouldLog
ToLevelNum(level) ==
  IF typeof(level) = "string" THEN LevelNum(toUpperCase(level.v)) ELSE level

\* the decision with a strict comparison
DecideStrict(levelNum, configNum) ==
  IF StrictEq(levelNum, Num(LOG_LEVELS.PERMANENT)) THEN TRUE
  ELSE IF StrictEq(configNum, Num(LOG_LEVELS.OFF)) THEN FALSE
  ELSE levelNum.t = "number" /\ configNum.t = "number"
       /\ levelNum.v < configNum.v

\* the decision of _shouldLog on the two weights
Decide(levelNum, configNum) ==
  IF StrictEq(levelNum, Num(LOG_LEVELS.PERMANENT)) THEN TRUE
  ELSE IF StrictEq(configNum, Num(LOG_LEVELS.OFF)) THEN FALSE
  ELSE JsLE(levelNum, configNum)

\* the filter with a strict comparison
_shouldLogStrict(cfg, level) ==
  DecideStrict(ToLevelNum(level), LevelNum(toUpperCase(cfg.level)))

\* _shouldLog(level): level is a string or a number
_shouldLog(cfg, level) ==
  Decide(ToLevelNum(level), LevelNum(toUpperCase(cfg.level)))

(***************************************************************************)
(* logger.js: entries and the console                                      *)
(***************************************************************************)
\* a console line: the console method, the fixed part of the message and
\* the entry (or the text) printed with it
Line(method, msg, entry) == [method |-> method, msg |-> msg, entry |-> entry]

\* a line that prints a text but no entry
NoEntry(text) ==
  [id |-> 0, level |-> "", text |-> text, module |-> "", extra |-> Undefined]

\* _createLogEntry(text, module, extra, level); level || 'INFORMATION'.
\* extra is Thrown when _sanitizeData threw: no entry was built then
_createLogEntry(cfg, text, module, extra, level) ==
  [id |-> calls + 1,
   level |-> IF level = "" THEN "INFORMATION" ELSE level,
   text |-> text,
   module |-> module,
   extra |-> _sanitizeData(cfg, extra)]

\* _outputToConsole(logEntry): console.error, console.warn or console.log
\* with the label of the level
_outputToConsole(logEntry) ==
  LET level == toUpperCase(logEntry.level) IN
  <<Line(CASE level = "ERROR" -> "error"
           [] level = "WARNING" -> "warn"
           [] OTHER -> "log",
         CASE level = "ERROR" -> "ERROR"
           [] level = "WARNING" -> "WARNING"
           [] level = "PERMANENT" -> "PERMANENT"
           [] level = "TIMING" -> "TIMING"
           [] OTHER -> "INFO",
         logEntry)>>

\* the catch block of log, error and warning
LoggerError(text) ==
  <<Line("error", "Logger error:", NoEntry("")),
    Line("log", "Original message:", NoEntry(text))>>

\* the body of log, error and warning after _createLogEntry: the entry,
\* whether it was written, and the console lines of the call
Output(cfg, text, logEntry) ==
  IF logEntry.extra.t = "throw"
  THEN [entry |-> logEntry, threw |-> TRUE, wrote |-> FALSE,
        lines |-> LoggerError(text)]
  ELSE IF _shouldLog(cfg, Str(logEntry.level)) /\ cfg.enableConsole
  THEN [entry |-> logEntry, threw |-> FALSE, wrote |-> TRUE,
        lines |-> _outputToConsole(logEntry)]
  ELSE [entry |-> logEntry, threw |-> FALSE, wrote |-> FALSE, lines |-> <<>>]

\* the body of log, error and warning
ConsoleOnly(cfg, text, module, extra, level) ==
  Output(cfg, text, _createLogEntry(cfg, text, module, extra, level))

\* what a call of the public API leaves in `last`: the call, the
\* configuration it ran under and what it did; seen holds what is known of
\* the call from outside the logger
Called(cfg, op, arg, r, sent, ret, seen) ==
  [op |-> op, arg |-> arg, entry |-> r.entry, threw |-> r.threw,
   wrote |-> r.wrote, sent |-> sent, ret |-> ret, cfg |-> cfg, seen |-> seen]

\* a call that built no entry
NoResult ==
  [entry |-> NoEntry(""), threw |-> FALSE, wrote |-> FALSE, lines |-> <<>>]

NoCall ==
  [op |-> "", arg |-> Undefined, entry |-> NoEntry(""), threw |-> FALSE,
   wrote |-> FALSE, sent |-> FALSE, ret |-> Undefined, cfg |-> DEFAULT_CONFIG,
   seen |-> Undefined]

(***************************************************************************)
(* logger.js: the delivery client.  Each _sendToServer call makes one      *)
(* closure with its own retryAttempts and maxRetries; st is where the      *)
(* closure stands: "inflight" (apex.server.process was called and has not  *)
(* answered), "waiting" (setTimeout(attemptSend, ...) is pending),         *)
(* "delivered", "failed" (retries exhausted), "threw" (the transport call  *)
(* threw).  inflight counts the transport calls of the closure that have   *)
(* not answered, scheduled its pending setTimeout(attemptSend, ...).       *)
(***************************************************************************)
\* var maxRetries = config.retryCount || 1
maxRetries(cfg) == IF cfg.retryCount = 0 THEN 1 ELSE cfg.retryCount

\* _formatConsoleMessage(logEntry), written with console.log
Formatted(logEntry) == Line("log", "formatted", logEntry)

\* the catch block of attemptSend
TransportThrew(cfg, logEntry) ==
  IF cfg.enableConsole
  THEN <<Line("error", "Logger server error:", NoEntry("")),
         Formatted(logEntry)>>
  ELSE <<>>

\* the else branch of the error callback
ServerFailed(cfg, logEntry) ==
  IF cfg.enableConsole
  THEN <<Line("warn", "Logger server failed, using console fallback",
              NoEntry("")),
         Formatted(logEntry)>>
  ELSE <<>>

\* a closure whose first transport call, when it throws, is retried by a
\* timer like a failed call
ClosureRetrying(cfg, logEntry, apexOk) ==
  [entry |-> logEntry,
   retryAttempts |-> IF apexOk THEN 0 ELSE 1,
   maxRetries |-> maxRetries(cfg),
   retryCount |-> cfg.retryCount,
   attempts |-> 1,
   delay |-> IF apexOk THEN 0 ELSE 1000,
   st |-> IF apexOk THEN "inflight" ELSE "waiting",
   inflight |-> IF apexOk THEN 1 ELSE 0,
   scheduled |-> IF apexOk THEN 0 ELSE 1]

\* the closure _sendToServer(logEntry) makes, after its first attemptSend();
\* apexOk: apex.server.process returned instead of throwing
Closure(cfg, logEntry, apexOk) ==
  [entry |-> logEntry,
   retryAttempts |-> 0,
   maxRetries |-> maxRetries(cfg),
   retryCount |-> cfg.retryCount,
   attempts |-> 1,
   delay |-> 0,
   st |-> IF apexOk THEN "inflight" ELSE "threw",
   inflight |-> IF apexOk THEN 1 ELSE 0,
   scheduled |-> 0]

\* the body of logServer up to its call of _sendToServer, given what the
\* same lines do in log: the entry, the console lines and whether
\* _sendToServer was reached
Reached(cfg, text, r) ==
  [entry |-> r.entry, threw |-> r.threw, wrote |-> r.wrote,
   lines |-> IF r.threw
             THEN <<Line("error", "Logger server error:", NoEntry("")),
                    Line("log", "Original message:", NoEntry(text))>>
             ELSE r.lines,
   reached |-> ~r.threw /\ _shouldLog(cfg, Str(r.entry.level))]

ServerCall(cfg, text, module, extra, level) ==
  Reached(cfg, text, ConsoleOnly(cfg, text, module, extra, level))

\* a _sendToServer that sends nothing while the failure flag is set
_sendToServerGated(logEntry, apexOk) ==
  IF ~config.enableServer
       \/ ("_serverError" \in DOMAIN config /\ config._serverError)
  THEN [sends |-> sends, lines |-> <<>>, config |-> currentConfig]
  ELSE [sends |-> Append(sends, Closure(config, logEntry, apexOk)),
        lines |-> IF apexOk THEN <<>> ELSE TransportThrew(config, logEntry),
        config |-> IF apexOk THEN currentConfig
                   ELSE ObjectAssign(currentConfig, [_serverError |-> TRUE])]

\* _sendToServer(logEntry): the closures, the console lines and the
\* configuration after the first attemptSend()
_sendToServer(logEntry, apexOk) ==
  IF ~config.enableServer
  THEN [sends |-> sends, lines |-> <<>>, config |-> currentConfig]
  ELSE [sends |-> Append(sends, Closure(config, logEntry, apexOk)),
        lines |-> IF apexOk THEN <<>> ELSE TransportThrew(config, logEntry),
        config |-> IF apexOk THEN currentConfig
                   ELSE ObjectAssign(currentConfig, [_serverError |-> TRUE])]

\* the tail of logServer: _sendToServer(logEntry) when the entry passed
Sent(r, apexOk) ==
  IF r.reached THEN _sendToServer(r.entry, apexOk)
  ELSE [sends |-> sends, lines |-> <<>>, config |-> currentConfig]

\* a success callback that leaves the failure flag as it is
onSuccessKeepFlag(i) ==
  /\ i \in DOMAIN sends
  /\ sends[i].st = "inflight"
  /\ sends' = [sends EXCEPT ![i].st = "delivered", ![i].inflight = @ - 1]
  /\ UNCHANGED <<currentConfig, timingUnits, now, console, calls, last,
                 levelArg, bconfig, btimingUnits, started, others>>

\* the success callback
onSuccess(i) ==
  /\ i \in DOMAIN sends
  /\ sends[i].st = "inflight"
  /\ currentConfig' = ObjectAssign(currentConfig, [_serverError |-> FALSE])
  /\ sends' = [sends EXCEPT ![i].st = "delivered", ![i].inflight = @ - 1]
  /\ UNCHANGED <<timingUnits, now, console, calls, last, levelArg, bconfig,
                 btimingUnits, started,
                 others>>

\* an error callback that falls back without recording the failure
onErrorNoFlag(i) ==
  /\ i \in DOMAIN sends
  /\ sends[i].st = "inflight"
  /\ LET retryAttempts == sends[i].retryAttempts + 1 IN
     IF retryAttempts <= sends[i].maxRetries
     THEN /\ sends' = [sends EXCEPT ![i].retryAttempts = retryAttempts,
                                    ![i].delay = 1000 * retryAttempts,
                                    ![i].st = "waiting",
                                    ![i].inflight = @ - 1,
                                    ![i].scheduled = @ + 1]
          /\ UNCHANGED <<currentConfig, console>>
     ELSE /\ sends' = [sends EXCEPT ![i].retryAttempts = retryAttempts,
                                    ![i].st = "failed",
                                    ![i].inflight = @ - 1]
          /\ UNCHANGED currentConfig
          /\ console' = console \o ServerFailed(config, sends[i].entry)
  /\ UNCHANGED <<timingUnits, now, calls, last, levelArg, bconfig,
                 btimingUnits, started,
                 others>>

\* an error callback that calls attemptSend() at once and schedules it too
onErrorResend(i) ==
  /\ i \in DOMAIN sends
  /\ sends[i].st = "inflight"
  /\ LET retryAttempts == sends[i].retryAttempts + 1 IN
     IF retryAttempts <= sends[i].maxRetries
     THEN /\ sends' = [sends EXCEPT ![i].retryAttempts = retryAttempts,
                                    ![i].delay = 1000 * retryAttempts,
                                    ![i].st = "waiting",
                                    ![i].attempts = @ + 1,
                                    ![i].scheduled = @ + 1]
          /\ UNCHANGED <<currentConfig, console>>
     ELSE /\ sends' = [sends EXCEPT ![i].retryAttempts = retryAttempts,
                                    ![i].st = "failed",
                                    ![i].inflight = @ - 1]
          /\ currentConfig' = ObjectAssign(currentConfig, [_serverError |-> TRUE])
          /\ console' = console \o ServerFailed(config, sends[i].entry)
  /\ UNCHANGED <<timingUnits, now, calls, last, levelArg, bconfig,
                 btimingUnits, started,
                 others>>

\* an error callback that counts the failure but schedules no retry
onErrorNoTimer(i) ==
  /\ i \in DOMAIN sends
  /\ sends[i].st = "inflight"
  /\ LET retryAttempts == sends[i].retryAttempts + 1 IN
     IF retryAttempts <= sends[i].maxRetries
     THEN /\ sends' = [sends EXCEPT ![i].retryAttempts = retryAttempts,
                                    ![i].st = "idle",
                                    ![i].inflight = @ - 1]
          /\ UNCHANGED <<currentConfig, console>>
     ELSE /\ sends' = [sends EXCEPT ![i].retryAttempts = retryAttempts,
                                    ![i].st = "failed",
                                    ![i].inflight = @ - 1]
          /\ currentConfig' = ObjectAssign(currentConfig, [_serverError |-> TRUE])
          /\ console' = console \o ServerFailed(config, sends[i].entry)
  /\ UNCHANGED <<timingUnits, now, calls, last, levelArg, bconfig,
                 btimingUnits, started, others>>

\* the error callback: retry after 1000 * retryAttempts ms, or give up
onError(i) ==
  /\ i \in DOMAIN sends
  /\ sends[i].st = "inflight"
  /\ LET retryAttempts == sends[i].retryAttempts + 1 IN
     IF retryAttempts <= sends[i].maxRetries
     THEN /\ sends' = [sends EXCEPT ![i].retryAttempts = retryAttempts,
                                    ![i].delay = 1000 * retryAttempts,
                                    ![i].st = "waiting",
                                    ![i].inflight = @ - 1,
                                    ![i].scheduled = @ + 1]
          /\ UNCHANGED <<currentConfig, console>>
     ELSE /\ sends' = [sends EXCEPT ![i].retryAttempts = retryAttempts,
                                    ![i].st = "failed",
                                    ![i].inflight = @ - 1]
          /\ currentConfig' = ObjectAssign(currentConfig, [_serverError |-> TRUE])
          /\ console' = console \o ServerFailed(config, sends[i].entry)
  /\ UNCHANGED <<timingUnits, now, calls, last, levelArg, bconfig,
                 btimingUnits, started,
                 others>>

\* a retry timer that looks at config.enableServer again and drops the retry
\* when server logging was disabled in the meantime
attemptSendChecked(i, apexOk) ==
  /\ i \in DOMAIN sends
  /\ sends[i].st = "waiting"
  /\ IF ~config.enableServer
     THEN /\ sends' = [sends EXCEPT ![i].st = "cancelled",
                                    ![i].scheduled = @ - 1]
          /\ UNCHANGED <<currentConfig, console>>
     ELSE IF apexOk
     THEN /\ sends' = [sends EXCEPT ![i].attempts = @ + 1,
                                    ![i].st = "inflight",
                                    ![i].scheduled = @ - 1,
                                    ![i].inflight = @ + 1]
          /\ UNCHANGED <<currentConfig, console>>
     ELSE /\ sends' = [sends EXCEPT ![i].attempts = @ + 1,
                                    ![i].st = "threw",
                                    ![i].scheduled = @ - 1]
          /\ currentConfig' = ObjectAssign(currentConfig, [_serverError |-> TRUE])
          /\ console' = console \o TransportThrew(config, sends[i].entry)
  /\ UNCHANGED <<timingUnits, now, calls, last, levelArg, bconfig,
                 btimingUnits, started, others>>

\* the retry timer fires: attemptSend() runs again
attemptSend(i, apexOk) ==
  /\ i \in DOMAIN sends
  /\ sends[i].st = "waiting"
  /\ IF apexOk
     THEN /\ sends' = [sends EXCEPT ![i].attempts = @ + 1,
                                    ![i].st = "inflight",
                                    ![i].scheduled = @ - 1,
                                    ![i].inflight = @ + 1]
          /\ UNCHANGED <<currentConfig, console>>
     ELSE /\ sends' = [sends EXCEPT ![i].attempts = @ + 1,
                                    ![i].st = "threw",
                                    ![i].scheduled = @ - 1]
          /\ currentConfig' = ObjectAssign(currentConfig, [_serverError |-> TRUE])
          /\ console' = console \o TransportThrew(config, sends[i].entry)
  /\ UNCHANGED <<timingUnits, now, calls, last, levelArg, bconfig,
                 btimingUnits, started,
                 others>>

(***************************************************************************)
(* logger-config.js and logger.js: the public API                          *)
(***************************************************************************)
\* a configure(options) whose currentConfig is DEFAULT_CONFIG itself, not a
\* copy of it
configureDefaults(options) ==
  /\ currentConfig' = ObjectAssign(currentConfig, options)
  /\ defaultConfig' = ObjectAssign(defaultConfig, options)
  /\ levelArg' = IF "level" \in DOMAIN options THEN options.level
                 ELSE levelArg
  /\ UNCHANGED <<timingUnits, now, console, sends, calls, last, bconfig,
                 btimingUnits, started, moduleExtra, extraSet, logBuffer,
                 flushTimer, flushArmed, currentContext,
                 btimingKeys, intervals>>

\* configure(options)
configure(options) ==
  /\ currentConfig' = ObjectAssign(currentConfig, options)
  /\ levelArg' = IF "level" \in DOMAIN options THEN options.level
                 ELSE levelArg
  /\ UNCHANGED <<timingUnits, now, console, sends, calls, last, bconfig,
                 btimingUnits, started,
                 others>>

\* setLevel(level): a name of LOG_LEVELS in any letter case, or a warning
setLevel(level) ==
  /\ IF LevelNum(toUpperCase(level)) # Undefined
     THEN /\ currentConfig' = [currentConfig EXCEPT !.level = toUpperCase(level)]
          /\ UNCHANGED <<console, calls>>
     ELSE /\ calls < MaxCalls
          /\ console' = Append(console,
                               Line("warn", "Invalid log level: ", NoEntry(level)))
          /\ calls' = calls + 1
          /\ UNCHANGED currentConfig
  /\ levelArg' = level
  /\ UNCHANGED <<timingUnits, now, sends, last, bconfig, btimingUnits,
                 started,
                 others>>

\* whether extra is what the previous log call made of its own extra, under
\* the configuration still in force
Resent(extra) ==
  [resan |-> last.op = "log" /\ ~last.threw /\ extra = last.entry.extra
             /\ last.cfg = currentConfig,
   x |-> IF last.op = "log" /\ ~last.threw /\ extra = last.entry.extra
             /\ last.cfg = currentConfig
          THEN last.arg ELSE Undefined,
   set |-> levelArg]

\* log(text, module, extra), error(...) and warning(...): the same body with
\* the severity of the function
LogCall(op, text, module, extra, level) ==
  /\ calls < MaxCalls
  /\ \E r \in {ConsoleOnly(config, text, module, extra, level)} :
       /\ console' = console \o r.lines
       /\ last' = Called(config, op, extra, r, FALSE, Undefined, Resent(extra))
  /\ calls' = calls + 1
  /\ UNCHANGED <<currentConfig, timingUnits, now, sends, levelArg, bconfig,
                 btimingUnits, started,
                 others>>

log(text, module, extra) == LogCall("log", text, module, extra, "INFORMATION")

error(text, module, extra) == LogCall("error", text, module, extra, "ERROR")

warning(text, module, extra) ==
  LogCall("warning", text, module, extra, "WARNING")

\* logServer(text, module, extra), while fewer than c calls were made and
\* fewer than n entries were handed to the delivery client
logServerWithin(c, n, text, module, extra, apexOk) ==
  /\ calls < c
  /\ Len(sends) < n
  /\ \E r \in {ServerCall(config, text, module, extra, "INFORMATION")} :
     \E s \in {Sent(r, apexOk)} :
        /\ console' = console \o r.lines \o s.lines
        /\ sends' = s.sends
        /\ currentConfig' = s.config
        /\ last' = Called(config, "logServer", extra, r,
                          Len(s.sends) > Len(sends), Undefined, Undefined)
  /\ calls' = calls + 1
  /\ UNCHANGED <<timingUnits, now, levelArg, bconfig, btimingUnits, started,
                 others>>

\* logServer(text, module, extra)
logServer(text, module, extra, apexOk) ==
  logServerWithin(MaxCalls, MaxSends, text, module, extra, apexOk)

\* the _shouldLog(level) decision under the live configuration
shouldLog(level) ==
  /\ last' = Called(config, "_shouldLog", level, NoResult, FALSE,
                    Bool(_shouldLog(config, level)), Undefined)
  /\ UNCHANGED <<currentConfig, timingUnits, now, console, sends, calls,
                 levelArg, bconfig, btimingUnits, started,
                 others>>

\* sanitizeData(data, options) of logger-utils.js, called on its own
utilsSanitizeData(data, options) ==
  /\ last' = Called(config, "sanitizeData", data, NoResult, FALSE,
                    sanitizeData(data, options), options)
  /\ UNCHANGED <<currentConfig, timingUnits, now, console, sends, calls,
                 levelArg, bconfig, btimingUnits, started,
                 others>>

(***************************************************************************)
(* logger.js: the timer registry.  timingUnits is a plain object: a name   *)
(* that is no own property is looked up on Object.prototype.               *)
(***************************************************************************)
ObjectPrototypeKeys ==
  {"constructor", "toString", "valueOf", "hasOwnProperty", "isPrototypeOf",
   "propertyIsEnumerable", "toLocaleString"}

\* timingUnits[unit]
TimingLookup(units, unit) ==
  IF unit \in DOMAIN units THEN Num(units[unit])
  ELSE IF unit \in ObjectPrototypeKeys THEN Fn
  ELSE Undefined

\* a - b: NaN unless both are numbers
Minus(a, b) ==
  IF a.t = "number" /\ b.t = "number" THEN Num(a.v - b.v) ELSE NaN

\* elapsed.toFixed(2) of a whole number of milliseconds, or of NaN
toFixed2(x) == IF x.t = "number" THEN NumToString(x.v) \o ".00" ELSE "NaN"

\* timingUnits[unit] = value
Put(units, unit, value) ==
  [u \in (DOMAIN units) \cup {unit} |-> IF u = unit THEN value ELSE units[u]]

\* delete timingUnits[unit]
Delete(units, unit) == [u \in (DOMAIN units) \ {unit} |-> units[u]]

NotStarted(unit) ==
  Line("warn", "Timing unit was not started", NoEntry(unit))

\* the message and the extra of a timing entry
TimingMessage(unit, elapsed) ==
  unit \o " completed in " \o toFixed2(elapsed) \o "ms"

TimingExtra(unit, elapsed) ==
  Obj(<<[k |-> "unit", v |-> Str(unit)], [k |-> "elapsed", v |-> elapsed]>>)

\* what is known of a timeStop call from the calls before it
History(unit, found) ==
  [started |-> unit \in DOMAIN started,
   at |-> IF unit \in DOMAIN started THEN started[unit] ELSE 0,
   now |-> now,
   warned |-> ~found]

\* var elapsed = performance.now() - timingUnits[unit]
Elapsed(units, unit) == Minus(Num(now), TimingLookup(units, unit))

\* performance.now() advances
Tick ==
  /\ now < MaxTime
  /\ now' = now + 1
  /\ UNCHANGED <<currentConfig, timingUnits, console, sends, calls, last,
                 levelArg, bconfig, btimingUnits, started,
                 others>>

\* timeStart(unit)
timeStart(unit) ==
  /\ timingUnits' = Put(timingUnits, unit, now)
  /\ started' = Put(started, unit, now)
  /\ UNCHANGED <<currentConfig, now, console, sends, calls, last, levelArg,
                 bconfig, btimingUnits,
                 others>>

\* timeStop(unit, module)
timeStop(unit, module) ==
  /\ calls < MaxCalls
  /\ IF ~Truthy(TimingLookup(timingUnits, unit))
     THEN /\ console' = Append(console, NotStarted(unit))
          /\ last' = Called(config, "timeStop", Str(unit), NoResult, FALSE,
                            Num(0), History(unit, FALSE))
          /\ UNCHANGED timingUnits
     ELSE \E elapsed \in {Elapsed(timingUnits, unit)} :
          \E r \in {ConsoleOnly(config, TimingMessage(unit, elapsed), module,
                                TimingExtra(unit, elapsed), "INFORMATION")} :
             /\ console' = console \o r.lines
             /\ timingUnits' = Delete(timingUnits, unit)
             /\ last' = Called(config, "timeStop", Str(unit), r, FALSE,
                               elapsed, History(unit, TRUE))
  /\ calls' = calls + 1
  /\ started' = Delete(started, unit)
  /\ UNCHANGED <<currentConfig, now, sends, levelArg, bconfig, btimingUnits,
                 others>>

\* timeStopServer(unit, module)
timeStopServer(unit, module, apexOk) ==
  /\ calls < MaxCalls
  /\ Len(sends) < MaxSends
  /\ IF ~Truthy(TimingLookup(timingUnits, unit))
     THEN /\ console' = Append(console, NotStarted(unit))
          /\ last' = Called(config, "timeStopServer", Str(unit), NoResult,
                            FALSE, Num(0), History(unit, FALSE))
          /\ UNCHANGED <<timingUnits, sends, currentConfig>>
     ELSE \E elapsed \in {Elapsed(timingUnits, unit)} :
          \E r \in {ServerCall(config, TimingMessage(unit, elapsed), module,
                               TimingExtra(unit, elapsed), "INFORMATION")} :
          \E s \in {Sent(r, apexOk)} :
             /\ console' = console \o r.lines \o s.lines
             /\ sends' = s.sends
             /\ currentConfig' = s.config
             /\ timingUnits' = Delete(timingUnits, unit)
             /\ last' = Called(config, "timeStopServer", Str(unit), r,
                               Len(s.sends) > Len(sends), elapsed,
                               History(unit, TRUE))
  /\ calls' = calls + 1
  /\ started' = Delete(started, unit)
  /\ UNCHANGED <<now, levelArg, bconfig, btimingUnits, others>>

(***************************************************************************)
(* logger.js, lines 654-1570: the buffered logger.  Its configuration and  *)
(* its timer registry are closure variables of its own.                    *)
(***************************************************************************)
B_DEFAULT_CONFIG ==
  [level |-> "INFORMATION",
   enableConsole |-> TRUE,
   enableServer |-> TRUE,
   enableBuffer |-> TRUE,
   bufferSize |-> 100,
   flushInterval |-> 30000,
   retryCount |-> 1,
   enableDataMasking |-> TRUE,
   sensitiveFields |-> <<"password", "token", "ssn">>,
   maxDataSize |-> 10000,
   maxTimingUnits |-> 100]

\* configure(options)
B_configure(options) ==
  /\ bconfig' = ObjectAssign(bconfig, options)
  /\ UNCHANGED <<currentConfig, timingUnits, now, console, sends, calls, last,
                 levelArg, btimingUnits, started,
                 others>>

\* setLevel(level)
B_setLevel(level) ==
  /\ IF LevelNum(toUpperCase(level)) # Undefined
     THEN /\ bconfig' = [bconfig EXCEPT !.level = toUpperCase(level)]
          /\ UNCHANGED <<console, calls>>
     ELSE /\ calls < MaxCalls
          /\ console' = Append(console,
                               Line("warn", "Invalid log level: ", NoEntry(level)))
          /\ calls' = calls + 1
          /\ UNCHANGED bconfig
  /\ UNCHANGED <<currentConfig, timingUnits, now, sends, last, levelArg,
                 btimingUnits, started,
                 others>>

\* a _createLogEntry that passes the data of the context through
\* _sanitizeData before attaching it
B_EntrySanitized(ctx, logEntry) ==
  IF Truthy(ctx)
  THEN ObjectAssign(logEntry,
         [context |-> Obj(<<ctx.props[1],
                            [k |-> "data",
                             v |-> _sanitizeData(bconfig, ctx.props[2].v)],
                            ctx.props[3]>>)])
  ELSE logEntry

\* the tail of _createLogEntry: logEntry.context = currentContext when a
\* context is set; the entry holds the context object itself
B_Entry(ctx, logEntry) ==
  IF Truthy(ctx) THEN ObjectAssign(logEntry, [context |-> ctx]) ELSE logEntry

\* the entry as _outputToConsole and _formatConsoleMessage print it: the
\* context appears as ' Context: ' + JSON.stringify(logEntry.context)
B_Shown(logEntry) ==
  IF "context" \in DOMAIN logEntry
  THEN ObjectAssign(logEntry, [context |-> JSONstringify(logEntry.context)])
  ELSE logEntry

\* the body of log after _createLogEntry; JSON.stringify(logEntry.context)
\* throws on a context that holds a reference cycle, inside the try block
B_Output(cfg, text, logEntry) ==
  IF logEntry.extra.t = "throw"
  THEN [entry |-> logEntry, threw |-> TRUE, wrote |-> FALSE,
        lines |-> LoggerError(text)]
  ELSE IF _shouldLog(cfg, Str(logEntry.level)) /\ cfg.enableConsole
  THEN IF "context" \in DOMAIN logEntry
            /\ JSONstringify(logEntry.context).t = "throw"
       THEN [entry |-> logEntry, threw |-> TRUE, wrote |-> FALSE,
             lines |-> LoggerError(text)]
       ELSE [entry |-> logEntry, threw |-> FALSE, wrote |-> TRUE,
             lines |-> _outputToConsole(B_Shown(logEntry))]
  ELSE [entry |-> logEntry, threw |-> FALSE, wrote |-> FALSE, lines |-> <<>>]

\* the body of log of the buffered logger under the context ctx
B_ConsoleOnly(cfg, ctx, text, scope, extra, level) ==
  B_Output(cfg, text,
           B_Entry(ctx, _createLogEntry(cfg, text, scope, extra, level)))

\* the body of logServer of the buffered logger up to _addToBuffer
B_ServerCall(cfg, ctx, text, scope, extra, level) ==
  Reached(cfg, text, B_ConsoleOnly(cfg, ctx, text, scope, extra, level))

\* log(text, scope, extra, level): console only
B_log(text, scope, extra, level) ==
  /\ calls < MaxCalls
  /\ \E r \in {B_ConsoleOnly(bconfig, currentContext, text, scope, extra,
                             level)} :
       /\ console' = console \o r.lines
       /\ last' = Called(bconfig, "log", extra, r, FALSE, Undefined, Undefined)
  /\ calls' = calls + 1
  /\ UNCHANGED <<currentConfig, timingUnits, now, sends, levelArg, bconfig,
                 btimingUnits, started,
                 others>>

\* the keys without unit, in their order
Without(keys, unit) == SelectSeq(keys, LAMBDA k : k # unit)

\* timeStart(unit)
B_timeStart(unit) ==
  /\ btimingUnits' = Put(btimingUnits, unit, now)
  /\ btimingKeys' = IF unit \in DOMAIN btimingUnits THEN btimingKeys
                    ELSE Append(btimingKeys, unit)
  /\ started' = Put(started, unit, now)
  /\ UNCHANGED <<currentConfig, timingUnits, now, console, sends, calls, last,
                 levelArg, bconfig, defaultConfig, moduleExtra,
                 extraSet, logBuffer,
                 flushTimer, flushArmed, currentContext,
                 intervals>>

\* timeStop(unit, scope): the entry is logged with level 'TIMING'
B_timeStop(unit, scope) ==
  /\ calls < MaxCalls
  /\ IF ~Truthy(TimingLookup(btimingUnits, unit))
     THEN /\ console' = Append(console, NotStarted(unit))
          /\ last' = Called(bconfig, "timeStop", Str(unit), NoResult, FALSE,
                            Num(0), History(unit, FALSE))
          /\ UNCHANGED btimingUnits
     ELSE \E elapsed \in {Elapsed(btimingUnits, unit)} :
          \E r \in {B_ConsoleOnly(bconfig, currentContext,
                                  TimingMessage(unit, elapsed), scope,
                                  TimingExtra(unit, elapsed), "TIMING")} :
             /\ console' = console \o r.lines
             /\ btimingUnits' = Delete(btimingUnits, unit)
             /\ last' = Called(bconfig, "timeStop", Str(unit), r, FALSE,
                               elapsed, History(unit, TRUE))
  /\ btimingKeys' = IF Truthy(TimingLookup(btimingUnits, unit))
                    THEN Without(btimingKeys, unit) ELSE btimingKeys
  /\ calls' = calls + 1
  /\ started' = Delete(started, unit)
  /\ UNCHANGED <<currentConfig, timingUnits, now, sends, levelArg, bconfig,
                 defaultConfig, moduleExtra,
                 extraSet, logBuffer, flushTimer, flushArmed, currentContext,
                 intervals>>

(***************************************************************************)
(* The state after the scripts have loaded, and the inputs of the calls.   *)
(***************************************************************************)
\* the module loggers the page has created with createModuleLogger
ModuleLoggers == {"Payment", "Auth"}

Init ==
  /\ currentConfig = DEFAULT_CONFIG
  /\ timingUnits = [u \in {} |-> 0]
  /\ now = 0
  /\ console = <<>>
  /\ sends = <<>>
  /\ calls = 0
  /\ last = NoCall
  /\ levelArg = ""
  /\ bconfig = B_DEFAULT_CONFIG
  /\ btimingUnits = [u \in {} |-> 0]
  /\ started = [u \in {} |-> 0]
  /\ defaultConfig = DEFAULT_CONFIG
  /\ moduleExtra = [m \in ModuleLoggers |-> Obj(<<>>)]
  /\ extraSet = [m \in ModuleLoggers |-> Undefined]
  /\ logBuffer = <<>>
  /\ flushTimer = FALSE
  /\ flushArmed = 0
  /\ btimingKeys = <<>>
  /\ intervals = 0
  /\ currentContext = Null

Texts == {"m"}
Modules == {"app"}
Units == {"op", "constructor"}

\* level names as callers write them: the names of the README, a lower-case
\* spelling and a name that is no level
Levels == {"OFF", "ERROR", "WARNING", "INFORMATION", "error", "VERBOSE"}

(***************************************************************************)
(* Delivery: entries are handed to the delivery client while the transport *)
(* answers, fails or throws, under every retryCount and console setting.   *)
(***************************************************************************)
DeliveryOptions ==
  {[retryCount |-> n] : n \in 0..MaxRetryCount}
    \cup {[enableConsole |-> b] : b \in BOOLEAN}

NextDelivery ==
  \/ \E options \in DeliveryOptions : configure(options)
  \/ \E text \in Texts, module \in Modules, apexOk \in BOOLEAN :
       logServer(text, module, Undefined, apexOk)
  \/ \E i \in 1..MaxSends : onSuccess(i)
  \/ \E i \in 1..MaxSends : onError(i)
  \/ \E i \in 1..MaxSends, apexOk \in BOOLEAN : attemptSend(i, apexOk)

SpecDelivery == Init /\ [][NextDelivery]_vars

\* the console lines that are the exhaustion fallback of entry e: the
\* formatted entry right after the warning that server delivery failed
FallbackLines(con, e) ==
  {j \in 2..Len(con) :
     /\ con[j] = Formatted(e)
     /\ con[j - 1].msg = "Logger server failed, using console fallback"}

\* C1: for every retryCount N in force when the entry was handed over, an
\* entry whose every transport call failed was attempted exactly N + 1 times
\* when the delivery client gives up (a given-up entry is never attempted
\* again: no action leaves "failed").
C1_RetryBound ==
  \A i \in DOMAIN sends :
    sends[i].st = "failed" => sends[i].attempts = sends[i].retryCount + 1

\* C2 as stated: every entry whose retries are exhausted has exactly one
\* console fallback line, whatever the configuration.
C2_FallbackAlways ==
  \A i \in DOMAIN sends :
    sends[i].st = "failed"
      => Cardinality(FallbackLines(console, sends[i].entry)) = 1

\* C2, amended: the step in which an entry's failed attempts exceed maxRetries
\* sets the failure flag and writes the entry's fallback (warning, then the
\* formatted entry) exactly when enableConsole is true at that moment; with
\* the console disabled the entry is dropped with only the flag set.  No
\* other step writes or removes a fallback line of the entry, so there is
\* never more than one.
C2_ExhaustionFallback ==
  [][\A i \in 1..MaxSends :
       i \in DOMAIN sends' =>
       LET was == IF i \in DOMAIN sends THEN sends[i].st ELSE "none"
           e == sends'[i].entry
       IN IF was = "inflight" /\ sends'[i].st = "failed"
          THEN /\ sends'[i].retryAttempts > sends'[i].maxRetries
               /\ "_serverError" \in DOMAIN currentConfig'
               /\ currentConfig'._serverError
               /\ Cardinality(FallbackLines(console', e))
                    = IF currentConfig.enableConsole THEN 1 ELSE 0
               /\ FallbackLines(console, e) = {}
          ELSE FallbackLines(console', e) = FallbackLines(console, e)]_vars

\* C2 witness: an entry whose retries are exhausted, the failure flag set
\* and the entry's one fallback line on the console
C2_FellBack ==
  \E i \in DOMAIN sends :
    /\ sends[i].st = "failed"
    /\ sends[i].retryAttempts > sends[i].maxRetries
    /\ "_serverError" \in DOMAIN currentConfig
    /\ currentConfig._serverError
    /\ Cardinality(FallbackLines(console, sends[i].entry)) = 1

(***************************************************************************)
(* Levels: the threshold is set through configure and setLevel, the        *)
(* console is switched, and log, warning and error are called.             *)
(***************************************************************************)
LevelOptions ==
  {[level |-> L] : L \in Levels} \cup {[enableConsole |-> b] : b \in BOOLEAN}

Extras == {Undefined, Obj(<<[k |-> "user", v |-> Str("bob")]>>)}

NextLevel ==
  \/ \E options \in LevelOptions : configure(options)
  \/ \E L \in Levels : setLevel(L)
  \/ \E text \in Texts, module \in Modules, extra \in Extras :
       log(text, module, extra)
  \/ \E text \in Texts, module \in Modules, extra \in Extras :
       warning(text, module, extra)
  \/ \E text \in Texts, module \in Modules, extra \in Extras :
       error(text, module, extra)

SpecLevel == Init /\ [][NextLevel]_vars

\* the severity of the entries of log, warning and error
Severity(op) ==
  CASE op = "log" -> "INFORMATION"
    [] op = "warning" -> "WARNING"
    [] op = "error" -> "ERROR"

\* the entry has a line of its own on the console
OnConsole(e) == \E j \in DOMAIN console : console[j].entry = e

\* C3: when the level most recently set through configure({level: L}) or
\* setLevel(L) is ERROR, WARNING or INFORMATION and the console is enabled,
\* a call of log, warning or error writes its entry to the console iff the
\* weight of its severity is at most the weight of L.
C3_LevelThreshold ==
  (/\ last.op \in {"log", "warning", "error"}
   /\ last.seen.set \in {"ERROR", "WARNING", "INFORMATION"}
   /\ last.cfg.enableConsole)
    => /\ last.entry.level = Severity(last.op)
       /\ OnConsole(last.entry)
            <=> LOG_LEVELS[Severity(last.op)] <= LOG_LEVELS[last.seen.set]

\* C3 witness: the level was lowered to ERROR after entries had been written
\* under another level, and the next log call wrote nothing
C3_ErrorOnly ==
  /\ last.op = "log"
  /\ last.seen.set = "ERROR"
  /\ last.cfg.enableConsole
  /\ ~OnConsole(last.entry)
  /\ \E j \in DOMAIN console : console[j].entry.level = "INFORMATION"

(***************************************************************************)
(* The filter alone: every threshold configure accepts, every level value  *)
(* _shouldLog can be given.                                                *)
(***************************************************************************)
LevelNames ==
  (DOMAIN LOG_LEVELS) \cup {"error", "Warning", "permanent", "VERBOSE", ""}

LevelValues ==
  {Str(n) : n \in LevelNames} \cup {Num(n) : n \in 0..9}
    \cup {Num(16), Num(200), Undefined}

NextFilter ==
  \/ \E L \in LevelNames : configure([level |-> L])
  \/ \E level \in LevelValues : shouldLog(level)

SpecFilter == Init /\ [][NextFilter]_vars

\* the name of a level value in LOG_LEVELS, "" when it has none: a string is
\* looked up in upper case, a number by its weight
NameOf(level) ==
  IF level.t = "string"
  THEN IF toUpperCase(level.v) \in DOMAIN LOG_LEVELS
       THEN toUpperCase(level.v) ELSE ""
  ELSE IF level.t = "number"
            /\ \E n \in DOMAIN LOG_LEVELS : LOG_LEVELS[n] = level.v
       THEN CHOOSE n \in DOMAIN LOG_LEVELS : LOG_LEVELS[n] = level.v
  ELSE ""

\* C4 as stated: _shouldLog(level) is true iff the level is recognized and
\* (it is PERMANENT, or the threshold is not OFF and the weight of the level
\* is at most the weight of the threshold).
C4_RecognizedOnly ==
  last.op = "_shouldLog"
    => LET n == NameOf(last.arg)
           th == NameOf(Str(last.cfg.level))
       IN last.ret.v
            <=> /\ n # ""
                /\ \/ n = "PERMANENT"
                   \/ /\ th # ""
                      /\ th # "OFF"
                      /\ LOG_LEVELS[n] <= LOG_LEVELS[th]

\* C4, amended: a level given as a string has the weight of its name in
\* LOG_LEVELS (looked up in upper case) and none when the name is unknown; a
\* level given as a number is its own weight, whether or not LOG_LEVELS holds
\* that number.  _shouldLog(level) is true iff the level has a weight and
\* (the weight is that of PERMANENT, or the threshold is a known name other
\* than OFF and the weight is at most the weight of the threshold).
C4_DecisionRule ==
  last.op = "_shouldLog"
    => LET level == last.arg
           th == NameOf(Str(last.cfg.level))
           weighted == IF level.t = "string" THEN NameOf(level) # ""
                       ELSE level.t = "number"
           weight == IF level.t = "string" THEN LOG_LEVELS[NameOf(level)]
                     ELSE level.v
       IN last.ret.v
            <=> /\ weighted
                /\ \/ weight = LOG_LEVELS.PERMANENT
                   \/ /\ th # ""
                      /\ th # "OFF"
                      /\ weight <= LOG_LEVELS[th]

\* C4 witness: PERMANENT passes the threshold OFF
C4_PermanentUnderOff ==
  /\ last.op = "_shouldLog"
  /\ last.arg = Str("permanent")
  /\ last.cfg.level = "OFF"
  /\ last.ret = Bool(TRUE)

(***************************************************************************)
(* Timers: units are started and stopped while the clock advances; the     *)
(* server variants hand their entries to the delivery client.              *)
(***************************************************************************)
TimerOptions ==
  {[level |-> L] : L \in {"OFF", "ERROR", "INFORMATION"}}
    \cup {[enableServer |-> b] : b \in BOOLEAN}

NextTimer ==
  \/ \E options \in TimerOptions : configure(options)
  \/ Tick
  \/ \E unit \in Units : timeStart(unit)
  \/ \E unit \in Units, module \in Modules : timeStop(unit, module)
  \/ \E unit \in Units, module \in Modules :
       timeStopServer(unit, module, TRUE)
  \/ \E text \in Texts, module \in Modules :
       logServer(text, module, Undefined, TRUE)

SpecTimer == Init /\ [][NextTimer]_vars

\* C5: whenever enableServer is true, logServer and timeStopServer (on a
\* started unit) hand their entry to the delivery client, whatever the
\* configured level.
C5_ServerBypassesLevel ==
  (/\ last.op \in {"logServer", "timeStopServer"}
   /\ last.entry # NoEntry("")
   /\ last.cfg.enableServer)
    => last.sent

\* C9: timeStop(u) returns 0, warns and creates no entry iff no timeStart(u)
\* has happened since the last timeStop(u); otherwise it returns now minus
\* the time of the most recent timeStart(u) and creates its entry.
C9_TimerRegistry ==
  last.op = "timeStop"
    => IF ~last.seen.started
       THEN /\ last.ret = Num(0)
            /\ last.seen.warned
            /\ last.entry = NoEntry("")
       ELSE /\ last.ret = Num(last.seen.now - last.seen.at)
            /\ ~last.seen.warned
            /\ last.entry # NoEntry("")

(***************************************************************************)
(* The buffered logger: its level is set and its timers are used.          *)
(***************************************************************************)
NextBuffered ==
  \/ \E L \in Levels : B_configure([level |-> L])
  \/ \E L \in Levels : B_setLevel(L)
  \/ Tick
  \/ \E text \in Texts, scope \in Modules, level \in {"", "ERROR", "TIMING"} :
       B_log(text, scope, Undefined, level)
  \/ \E unit \in Units : B_timeStart(unit)
  \/ \E unit \in Units, scope \in Modules : B_timeStop(unit, scope)

SpecBuffered == Init /\ [][NextBuffered]_vars

\* C10: timeStop on a started unit creates one entry of level INFORMATION
\* with the extra {unit, elapsed} and the message '<unit> completed in
\* <elapsed>ms'; under level INFORMATION with the console enabled the entry
\* is written to the console.
C10_TimingIsInformation ==
  (last.op = "timeStop" /\ ~last.seen.warned)
    => /\ last.entry.level = "INFORMATION"
       /\ last.entry.text = TimingMessage(last.arg.v, last.ret)
       /\ last.entry.extra = TimingExtra(last.arg.v, last.ret)
       /\ (last.cfg.level = "INFORMATION" /\ last.cfg.enableConsole)
            => OnConsole(last.entry)

(***************************************************************************)
(* Sanitizing: log is called with payloads of every kind, and with what a  *)
(* previous call made of its payload, under the masking options.           *)
(***************************************************************************)
RECURSIVE Repeat(_, _)
Repeat(c, n) ==
  IF n = 0 THEN ""
  ELSE IF n = 1 THEN c
  ELSE Repeat(c, n \div 2) \o Repeat(c, n - n \div 2)

\* an object whose graph holds a reference to itself: o.self = o
Cyclic(props, proto) ==
  [t |-> "object", props |-> props, cyc |-> TRUE, proto |-> proto]

Payloads ==
  {Undefined,
   Str("hi"),
   Str(Repeat("x", 100)),
   Fn,
   Obj(<<[k |-> "apiToken", v |-> Str("t1")], [k |-> "id", v |-> Num(7)]>>),
   Obj(<<[k |-> "password", v |-> Str("abc")],
         [k |-> "note", v |-> Str(Repeat("x", 65))]>>),
   Cyclic(<<[k |-> "name", v |-> Str("n")]>>, TRUE),
   Cyclic(<<[k |-> "name", v |-> Str("n")]>>, FALSE)}

MaskingOptions ==
  {[sensitiveFields |-> <<"password", "token", "ssn">>],
   [sensitiveFields |-> <<"Password", "Token">>],
   [maxDataSize |-> 100],
   [maxDataSize |-> 10000],
   [enableDataMasking |-> FALSE],
   [enableDataMasking |-> TRUE]}

UtilsOptions ==
  {[maxDataSize |-> m, enableDataMasking |-> TRUE, sensitiveFields |-> f] :
     m \in {100, 10000},
     f \in {<<"password", "token", "ssn">>, <<"Password", "Token">>}}

NextSanitize ==
  \/ \E options \in MaskingOptions : configure(options)
  \/ \E text \in Texts, module \in Modules,
        extra \in Payloads \cup (IF last.threw THEN {} ELSE {last.entry.extra}) :
       log(text, module, extra)

SpecSanitize == Init /\ [][NextSanitize]_vars

\* the sanitizer of logger-utils.js on the same payloads
NextUtils ==
  \E data \in Payloads, options \in UtilsOptions :
    utilsSanitizeData(data, options)

SpecUtils == Init /\ [][NextUtils]_vars

\* the key contains one of the sensitive substrings, letter case ignored on
\* both sides
SensitiveKey(key, sensitiveFields) ==
  \E j \in 1..Len(sensitiveFields) :
    includes(toLowerCase(key), toLowerCase(sensitiveFields[j]))

\* the value serializes to at most maxDataSize characters
Fits(x, maxDataSize) ==
  JSONstringify(x).t = "string" /\ Len(JSONstringify(x).v) <= maxDataSize

\* C6: with masking enabled, the sanitized extra of an object (one that
\* serializes within maxDataSize) has the same keys, the value
\* '***MASKED***' under each key whose lower-case form contains a configured
\* sensitive substring, matched case-insensitively, and the input value
\* under every other key.
C6_MaskingCoverage ==
  (/\ last.op = "log"
   /\ last.cfg.enableDataMasking
   /\ last.arg.t = "object"
   /\ Fits(last.arg, last.cfg.maxDataSize))
    => LET in == last.arg.props
           out == last.entry.extra
       IN /\ out.t = "object"
          /\ Len(out.props) = Len(in)
          /\ \A i \in 1..Len(in) :
               /\ out.props[i].k = in[i].k
               /\ out.props[i].v
                    = IF SensitiveKey(in[i].k, last.cfg.sensitiveFields)
                      THEN Str(MASKED) ELSE in[i].v

\* C7: for an extra that cannot be serialized, the sanitizer returns the
\* error wrapper without throwing and the log call writes its entry.
C7_CyclicSafety ==
  (/\ last.op = "log"
   /\ Truthy(last.arg)
   /\ JSONstringify(last.arg).t # "string")
    => /\ ~last.threw
       /\ last.entry.extra.t = "object"
       /\ last.entry.extra.props[1]
            = [k |-> "_error", v |-> Str("Could not serialize data")]
       /\ last.entry.extra.props[2]
            = [k |-> "_type", v |-> Str(typeof(last.arg))]
       /\ last.entry.extra.props[3].k = "_string"
       /\ OnConsole(last.entry)

\* C8 as stated: a second pass over a sanitized value changes nothing.
C8_Idempotent ==
  (last.op = "log" /\ last.seen.resan) => last.entry.extra = last.arg

\* C8, amended: let once = sanitize(x) and twice = sanitize(once) under one
\* configuration.  When once is no object (undefined, a string that fits),
\* twice = once.  When once serializes to more than maxDataSize characters -
\* every truncation wrapper does, and so does a masked copy the mask has made
\* longer than the limit - the second pass wraps it (again).  When once fits:
\* a masked copy is not changed, and an error wrapper is not changed provided
\* none of its keys matches a sensitive field.
C8_SecondPass ==
  (last.op = "log" /\ last.seen.resan)
    => LET x == last.seen.x
           once == last.arg
           twice == last.entry.extra
           cfg == last.cfg
       IN IF ~Truthy(once) \/ once.t # "object" THEN twice = once
          ELSE IF ~Fits(once, cfg.maxDataSize)
               THEN twice = Truncated(JSONstringify(once).v, cfg.maxDataSize)
          ELSE IF JSONstringify(x).t = "string" THEN twice = once
          ELSE (~cfg.enableDataMasking
                \/ \A i \in 1..Len(once.props) :
                     ~isSensitive(once.props[i].k, cfg.sensitiveFields))
                 => twice = once

\* C8 witness: a masked copy went through the sanitizer a second time and
\* came out as it was
C8_MaskedTwice ==
  /\ last.op = "log"
  /\ last.seen.resan
  /\ last.arg.t = "object"
  /\ \E i \in 1..Len(last.arg.props) : last.arg.props[i].v = Str(MASKED)
  /\ last.entry.extra = last.arg

(***************************************************************************)
(* logger-config.js: validation.  A configuration argument is a record of  *)
(* JavaScript values, or undefined when the caller passes nothing.         *)
(***************************************************************************)
Arr(items) == [t |-> "array", v |-> items]

\* c[k]
Field(c, k) == IF k \in DOMAIN c THEN c[k] ELSE Undefined

\* isValidLevel(level): level.toUpperCase() is a TypeError unless level is
\* a string
isValidLevel(level) ==
  IF level.t = "string"
  THEN Bool(LevelNum(toUpperCase(level.v)) # Undefined)
  ELSE Thrown

\* config.level && !isValidLevel(config.level)
InvalidLevel(c) ==
  Truthy(Field(c, "level")) /\ isValidLevel(Field(c, "level")) = Bool(FALSE)

\* x && (typeof x !== 'number' || x < min)
TooSmall(x, min) == Truthy(x) /\ (typeof(x) # "number" \/ x.v < min)

\* config.sensitiveFields && !Array.isArray(config.sensitiveFields)
NoArray(x) == Truthy(x) /\ x.t # "array"

\* the errors validateConfig pushes, in the order of its tests
ValidationErrors(c) ==
  (IF InvalidLevel(c) THEN <<"Invalid log level: ">> ELSE <<>>)
    \o (IF TooSmall(Field(c, "maxDataSize"), 100)
        THEN <<"maxDataSize must be at least 100 bytes">> ELSE <<>>)
    \o (IF TooSmall(Field(c, "maxTimingUnits"), 10)
        THEN <<"maxTimingUnits must be at least 10">> ELSE <<>>)
    \o (IF NoArray(Field(c, "sensitiveFields"))
        THEN <<"sensitiveFields must be an array">> ELSE <<>>)

\* validateConfig(config): {isValid, errors}, or Thrown when reading
\* config.level or calling level.toUpperCase() is a TypeError
validateConfig(c) ==
  IF c = Undefined THEN Thrown
  ELSE IF Truthy(Field(c, "level")) /\ isValidLevel(Field(c, "level")) = Thrown
  THEN Thrown
  ELSE [t |-> "object",
        isValid |-> ~(\/ InvalidLevel(c)
                      \/ TooSmall(Field(c, "maxDataSize"), 100)
                      \/ TooSmall(Field(c, "maxTimingUnits"), 10)
                      \/ NoArray(Field(c, "sensitiveFields"))),
        errors |-> ValidationErrors(c)]

\* a call of validateConfig(config)
callValidateConfig(c) ==
  /\ last' = Called(config, "validateConfig", c, NoResult, FALSE,
                    validateConfig(c), Undefined)
  /\ UNCHANGED <<currentConfig, timingUnits, now, console, sends, calls,
                 levelArg, bconfig, btimingUnits, started, others>>

\* a call of setLevel(level) with any value: level.toUpperCase() is a
\* TypeError unless level is a string, and setLevel has no try block
callSetLevel(level) ==
  IF level.t = "string" THEN setLevel(level.v)
  ELSE /\ last' = Called(config, "setLevel", level, NoResult, FALSE, Thrown,
                         Undefined)
       /\ UNCHANGED <<currentConfig, timingUnits, now, console, sends, calls,
                      levelArg, bconfig, btimingUnits, started, others>>

LevelArgs == {Str("ERROR"), Str("loud"), Undefined, Num(2)}

ConfigArgs ==
  {Undefined,
   [level |-> Str("ERROR")],
   [level |-> Str("LOUD")],
   [level |-> Str("")],
   [level |-> Num(5)],
   [maxDataSize |-> Num(0)],
   [maxDataSize |-> Num(50)],
   [maxDataSize |-> Num(100)],
   [maxDataSize |-> Str("big")],
   [maxTimingUnits |-> Num(5)],
   [maxTimingUnits |-> Num(10)],
   [sensitiveFields |-> Arr(<<"pin">>)],
   [sensitiveFields |-> Str("pin")],
   [level |-> Str("LOUD"), maxDataSize |-> Num(50)],
   [bufferSize |-> Num(5)]}

(***************************************************************************)
(* Exceptions: the public operations are called with arguments of every    *)
(* kind, among them values that are no strings and payloads the sanitizer  *)
(* cannot handle.                                                          *)
(***************************************************************************)
NextEscape ==
  \/ \E level \in LevelArgs : callSetLevel(level)
  \/ \E c \in {Undefined, [level |-> Str("ERROR")], [level |-> Num(5)]} :
       callValidateConfig(c)
  \/ \E L \in {"OFF", "ERROR"} : configure([level |-> L])
  \/ \E text \in Texts, module \in Modules,
        extra \in {Undefined, Cyclic(<<[k |-> "name", v |-> Str("n")]>>, FALSE)} :
       log(text, module, extra)
  \/ timeStart("op")
  \/ \E module \in Modules : timeStop("op", module)

SpecEscape == Init /\ [][NextEscape]_vars

\* C11: no public operation of the logger or of its configuration module
\* lets an exception reach its caller
C11_NoExceptionEscapes ==
  last.op \in {"log", "timeStop", "setLevel", "validateConfig"}
    => last.ret # Thrown

(***************************************************************************)
(* Validation: validateConfig is called on configuration records while the *)
(* live configuration changes.                                             *)
(***************************************************************************)
NextValidate ==
  \/ \E c \in ConfigArgs : callValidateConfig(c)
  \/ \E L \in Levels : configure([level |-> L])
  \/ \E b \in BOOLEAN : configure([enableConsole |-> b])

SpecValidate == Init /\ [][NextValidate]_vars

\* a key of c that the caller has given a value
Given(c, k) == c # Undefined /\ Field(c, k) # Undefined

\* x is a number >= min
AtLeast(x, min) == x.t = "number" /\ x.v >= min

\* C17: validateConfig(c) reports every level that is no level name, every
\* maxDataSize and maxTimingUnits that is no number of at least 100 and 10,
\* and every sensitiveFields that is no array; isValid is true iff there
\* are no errors; the live configuration is not modified
C17_ValidateConfig ==
  [][\A c \in ConfigArgs \ {Undefined} : callValidateConfig(c) =>
       /\ last'.ret # Thrown
       /\ last'.ret.isValid <=> last'.ret.errors = <<>>
       /\ (Given(c, "level") /\ isValidLevel(Field(c, "level")) # Bool(TRUE))
            => ~last'.ret.isValid
       /\ (Given(c, "maxDataSize") /\ ~AtLeast(Field(c, "maxDataSize"), 100))
            => ~last'.ret.isValid
       /\ (Given(c, "maxTimingUnits")
             /\ ~AtLeast(Field(c, "maxTimingUnits"), 10))
            => ~last'.ret.isValid
       /\ (Given(c, "sensitiveFields") /\ Field(c, "sensitiveFields").t # "array")
            => ~last'.ret.isValid
       /\ currentConfig' = currentConfig]_vars

(***************************************************************************)
(* logger.js, lines 654-1570: the buffer of the buffered logger and its    *)
(* housekeeping.                                                           *)
(***************************************************************************)
\* the console lines of the catch blocks of attemptSend, entry by entry
RECURSIVE ThrewLines(_, _)
ThrewLines(cfg, entries) ==
  IF entries = <<>> THEN <<>>
  ELSE TransportThrew(cfg, B_Shown(Head(entries)))
         \o ThrewLines(cfg, Tail(entries))

\* _flushBuffer(): logBuffer.splice(0), then _sendToServer for each entry,
\* which returns at once when enableServer is false
B_flushBuffer(buffer, apexOk) ==
  IF buffer = <<>> \/ ~bconfig.enableServer
  THEN [buffer |-> <<>>, sends |-> sends, lines |-> <<>>, config |-> bconfig]
  ELSE [buffer |-> <<>>,
        sends |-> sends \o [i \in 1..Len(buffer) |->
                              Closure(bconfig, buffer[i], apexOk)],
        lines |-> IF apexOk THEN <<>> ELSE ThrewLines(bconfig, buffer),
        config |-> IF apexOk THEN bconfig
                   ELSE ObjectAssign(bconfig, [_serverError |-> TRUE])]

\* an _addToBuffer that, at capacity, sends the oldest entries only and keeps
\* bufferSize - 1 entries queued
B_addToBufferExcess(logEntry, apexOk) ==
  IF ~bconfig.enableBuffer
  THEN [buffer |-> logBuffer, sends |-> sends, lines |-> <<>>,
        config |-> bconfig]
  ELSE IF Len(logBuffer) + 1 >= bconfig.bufferSize /\ bconfig.bufferSize > 1
  THEN [buffer |-> SubSeq(Append(logBuffer, logEntry),
                          Len(logBuffer) - bconfig.bufferSize + 3,
                          Len(logBuffer) + 1),
        sends |-> B_flushBuffer(SubSeq(Append(logBuffer, logEntry), 1,
                                       Len(logBuffer) - bconfig.bufferSize + 2),
                                apexOk).sends,
        lines |-> <<>>, config |-> bconfig]
  ELSE IF Len(logBuffer) + 1 >= bconfig.bufferSize
  THEN B_flushBuffer(Append(logBuffer, logEntry), apexOk)
  ELSE [buffer |-> Append(logBuffer, logEntry), sends |-> sends,
        lines |-> <<>>, config |-> bconfig]

\* _addToBuffer(logEntry)
B_addToBuffer(logEntry, apexOk) ==
  IF ~bconfig.enableBuffer
  THEN [buffer |-> logBuffer, sends |-> sends, lines |-> <<>>,
        config |-> bconfig]
  ELSE IF Len(logBuffer) + 1 >= bconfig.bufferSize
  THEN B_flushBuffer(Append(logBuffer, logEntry), apexOk)
  ELSE [buffer |-> Append(logBuffer, logEntry), sends |-> sends,
        lines |-> <<>>, config |-> bconfig]

\* a _scheduleServerSync that leaves a pending timer running instead of
\* replacing it
B_scheduleServerSyncOnce ==
  IF ~bconfig.enableServer \/ ~bconfig.enableBuffer
  THEN [timer |-> flushTimer, armed |-> flushArmed]
  ELSE [timer |-> TRUE, armed |-> IF flushTimer THEN flushArmed ELSE now]

\* _scheduleServerSync(): whether a flush is scheduled after it, and since
\* when; a pending timer is cleared and a new one is set
B_scheduleServerSync ==
  IF ~bconfig.enableServer \/ ~bconfig.enableBuffer
  THEN [timer |-> flushTimer, armed |-> flushArmed]
  ELSE [timer |-> TRUE, armed |-> now]

\* the tail of logServer: _addToBuffer(logEntry); _scheduleServerSync()
B_Buffered(r, apexOk) ==
  IF r.reached
  THEN [b |-> B_addToBuffer(r.entry, apexOk), timer |-> B_scheduleServerSync]
  ELSE [b |-> [buffer |-> logBuffer, sends |-> sends, lines |-> <<>>,
               config |-> bconfig],
        timer |-> [timer |-> flushTimer, armed |-> flushArmed]]

\* logServer(text, scope, extra, level), while fewer than c calls were made
\* and fewer than n entries are in the buffer or with the delivery client
B_logServerWithin(c, n, text, scope, extra, level, apexOk) ==
  /\ calls < c
  /\ Len(sends) + Len(logBuffer) < n
  /\ \E r \in {B_ServerCall(bconfig, currentContext, text, scope, extra,
                            level)} :
     \E q \in {B_Buffered(r, apexOk)} :
        /\ console' = console \o r.lines \o q.b.lines
        /\ logBuffer' = q.b.buffer
        /\ sends' = q.b.sends
        /\ bconfig' = q.b.config
        /\ flushTimer' = q.timer.timer
        /\ flushArmed' = q.timer.armed
        /\ last' = Called(bconfig, "logServer", extra, r,
                          Len(q.b.sends) > Len(sends), Undefined,
                          [queued |-> Len(q.b.buffer) > Len(logBuffer)])
  /\ calls' = calls + 1
  /\ UNCHANGED <<currentConfig, timingUnits, now, levelArg, btimingUnits,
                 started, defaultConfig, moduleExtra,
                 extraSet, btimingKeys, intervals, currentContext>>

\* logServer(text, scope, extra, level)
B_logServer(text, scope, extra, level, apexOk) ==
  B_logServerWithin(MaxCalls, MaxSends, text, scope, extra, level, apexOk)

\* the flush timer fires: _flushBuffer()
B_flushTimerFires(apexOk) ==
  /\ flushTimer
  /\ \E b \in {B_flushBuffer(logBuffer, apexOk)} :
        /\ logBuffer' = b.buffer
        /\ sends' = b.sends
        /\ console' = console \o b.lines
        /\ bconfig' = b.config
  /\ flushTimer' = FALSE
  /\ UNCHANGED <<currentConfig, timingUnits, now, calls, last, levelArg,
                 btimingUnits, started, defaultConfig, moduleExtra,
                 extraSet, flushArmed, currentContext, btimingKeys, intervals>>

\* flush()
B_flush(apexOk) ==
  /\ \E b \in {B_flushBuffer(logBuffer, apexOk)} :
        /\ logBuffer' = b.buffer
        /\ sends' = b.sends
        /\ console' = console \o b.lines
        /\ bconfig' = b.config
  /\ UNCHANGED <<currentConfig, timingUnits, now, calls, last, levelArg,
                 btimingUnits, started, defaultConfig, moduleExtra,
                 extraSet, flushTimer, flushArmed, currentContext,
                 btimingKeys, intervals>>

\* config.maxTimingUnits || 100
B_maxTimingUnits(cfg) ==
  IF cfg.maxTimingUnits = 0 THEN 100 ELSE cfg.maxTimingUnits

\* the keys _cleanupResources keeps: when there are more than
\* maxTimingUnits || 100 keys, timingKeys.slice(0, length - maxTimingUnits)
\* is removed
B_keptKeys(cfg, keys) ==
  IF Len(keys) > B_maxTimingUnits(cfg)
  THEN SubSeq(keys, Len(keys) - cfg.maxTimingUnits + 1, Len(keys))
  ELSE keys

\* the timers _cleanupResources keeps
B_keptUnits(cfg, units, keys) ==
  [u \in {B_keptKeys(cfg, keys)[i] : i \in 1..Len(B_keptKeys(cfg, keys))} |->
     units[u]]

\* the buffer _cleanupResources keeps: logBuffer.slice(-bufferSize) when it
\* holds more than bufferSize * 2 entries
B_keptBuffer(cfg, buffer) ==
  IF Len(buffer) > cfg.bufferSize * 2
  THEN SubSeq(buffer, Len(buffer) - cfg.bufferSize + 1, Len(buffer))
  ELSE buffer

\* clearBuffer(): logBuffer.length = 0; _cleanupResources()
B_clearBuffer ==
  /\ logBuffer' = B_keptBuffer(bconfig, <<>>)
  /\ btimingKeys' = B_keptKeys(bconfig, btimingKeys)
  /\ btimingUnits' = B_keptUnits(bconfig, btimingUnits, btimingKeys)
  /\ UNCHANGED <<currentConfig, timingUnits, now, console, sends, calls, last,
                 levelArg, bconfig, started, defaultConfig, moduleExtra,
                 extraSet,
                 flushTimer, flushArmed, currentContext,
                 intervals>>

\* the setInterval(..., 5 * 60 * 1000) of the auto cleanup stands after the
\* return statement of the module function: it is never executed and no
\* interval is installed
B_cleanupInterval == FALSE

\* five minutes pass: the interval callback runs if an interval is installed
B_fiveMinutesPass ==
  /\ intervals < MaxIntervals
  /\ intervals' = intervals + 1
  /\ btimingKeys' = IF B_cleanupInterval
                    THEN B_keptKeys(bconfig, btimingKeys) ELSE btimingKeys
  /\ btimingUnits' = IF B_cleanupInterval
                     THEN B_keptUnits(bconfig, btimingUnits, btimingKeys)
                     ELSE btimingUnits
  /\ logBuffer' = IF B_cleanupInterval
                  THEN B_keptBuffer(bconfig, logBuffer) ELSE logBuffer
  /\ UNCHANGED <<currentConfig, timingUnits, now, console, sends, calls, last,
                 levelArg, bconfig, started, defaultConfig, moduleExtra,
                 extraSet,
                 flushTimer, flushArmed, currentContext>>

(***************************************************************************)
(* Buffering: logServer of the buffered logger with the buffer enabled and *)
(* disabled, the flush timer and flush().                                  *)
(***************************************************************************)
BufferOptions ==
  {[enableBuffer |-> b] : b \in BOOLEAN}
    \cup {[enableServer |-> b] : b \in BOOLEAN}
    \cup {[bufferSize |-> n] : n \in {1, 100}}
    \cup {[level |-> L] : L \in {"ERROR", "INFORMATION"}}

NextBuffer ==
  \/ \E options \in BufferOptions : B_configure(options)
  \/ \E text \in Texts, scope \in Modules, level \in {"", "ERROR"},
        apexOk \in BOOLEAN :
       B_logServer(text, scope, Undefined, level, apexOk)
  \/ \E apexOk \in BOOLEAN : B_flushTimerFires(apexOk)
  \/ \E apexOk \in BOOLEAN : B_flush(apexOk)

SpecBuffer == Init /\ [][NextBuffer]_vars

\* C12: with enableBuffer false and enableServer true, a logServer call of
\* the buffered logger that passes the level filter makes a transport
\* attempt for its entry during the call
C12_UnbufferedSendsNow ==
  (/\ last.op = "logServer"
   /\ ~last.cfg.enableBuffer
   /\ last.cfg.enableServer
   /\ ~last.threw
   /\ _shouldLog(last.cfg, Str(last.entry.level)))
    => last.sent

(***************************************************************************)
(* Housekeeping: timers of the buffered logger are started and stopped     *)
(* under small values of maxTimingUnits while time passes.                 *)
(***************************************************************************)
CleanupUnits == {"a", "b"}

NextCleanup ==
  \/ \E n \in {1, 100} : B_configure([maxTimingUnits |-> n])
  \/ \E unit \in CleanupUnits : B_timeStart(unit)
  \/ \E unit \in CleanupUnits, scope \in Modules : B_timeStop(unit, scope)
  \/ Tick
  \/ B_clearBuffer
  \/ B_fiveMinutesPass

SpecCleanup == Init /\ [][NextCleanup]_vars

\* C18: the housekeeping sweep runs by itself every five minutes, and after
\* a sweep at most maxTimingUnits timers are open
C18_AutomaticCleanup ==
  [][intervals' = intervals + 1
       => Len(btimingKeys') <= B_maxTimingUnits(bconfig')]_vars

(***************************************************************************)
(* Options: log, warning and error are called with a fourth argument.      *)
(* The functions have three parameters (text, module, extra); a fourth     *)
(* argument is not read.                                                   *)
(***************************************************************************)
LogCallWith(op, text, module, extra, level, options) ==
  /\ calls < MaxCalls
  /\ \E r \in {ConsoleOnly(config, text, module, extra, level)} :
       /\ console' = console \o r.lines
       /\ last' = Called(config, op, extra, r, FALSE, Undefined,
                         [options |-> options])
  /\ calls' = calls + 1
  /\ UNCHANGED <<currentConfig, timingUnits, now, sends, levelArg, bconfig,
                 btimingUnits, started, others>>

\* log(text, module, extra, options)
logWith(text, module, extra, options) ==
  LogCallWith("log", text, module, extra, "INFORMATION", options)

\* error(text, module, extra, options)
errorWith(text, module, extra, options) ==
  LogCallWith("error", text, module, extra, "ERROR", options)

\* warning(text, module, extra, options)
warningWith(text, module, extra, options) ==
  LogCallWith("warning", text, module, extra, "WARNING", options)

CallOptions == {Undefined, [sendToServer |-> Bool(TRUE)]}

NextOption ==
  \/ \E b \in BOOLEAN : configure([enableServer |-> b])
  \/ \E L \in {"ERROR", "WARNING", "INFORMATION"} : configure([level |-> L])
  \/ \E text \in Texts, module \in Modules, options \in CallOptions :
       logWith(text, module, Undefined, options)
  \/ \E text \in Texts, module \in Modules, options \in CallOptions :
       errorWith(text, module, Undefined, options)
  \/ \E text \in Texts, module \in Modules, options \in CallOptions :
       warningWith(text, module, Undefined, options)
  \/ \E text \in Texts, module \in Modules, apexOk \in BOOLEAN :
       logServer(text, module, Undefined, apexOk)

SpecOption == Init /\ [][NextOption]_vars

\* C13: log, warning and error with the fourth argument {sendToServer: true}
\* also hand their entry to the server when enableServer is true, and
\* without it they stay console-only
C13_PerCallServerOption ==
  (last.op \in {"log", "warning", "error"} /\ "options" \in DOMAIN last.seen)
    => IF last.seen.options # Undefined /\ last.cfg.enableServer
          /\ ~last.threw /\ _shouldLog(last.cfg, Str(last.entry.level))
       THEN last.sent
       ELSE ~last.sent

(***************************************************************************)
(* logger.js: module loggers.  Each createModuleLogger(moduleName) call    *)
(* has a moduleExtra of its own.                                           *)
(***************************************************************************)
\* the keys of an object
KeysOf(o) == {o.props[i].k : i \in 1..Len(o.props)}

\* o[k] for an own key k
ValueOf(o, k) == o.props[CHOOSE i \in 1..Len(o.props) : o.props[i].k = k].v

\* Object.assign({}, a, b) on objects: the keys of a in their order with
\* the values of b where b has the key, then the other keys of b
ObjectAssignNew(a, b) ==
  Obj([i \in 1..Len(a.props) |->
         IF a.props[i].k \in KeysOf(b)
         THEN [k |-> a.props[i].k, v |-> ValueOf(b, a.props[i].k)]
         ELSE a.props[i]]
      \o SelectSeq(b.props, LAMBDA p : p.k \notin KeysOf(a)))

\* x || {}
OrEmpty(x) == IF Truthy(x) THEN x ELSE Obj(<<>>)

\* a setExtra that writes the variable of every module logger
M_setExtraShared(m, extraData) ==
  /\ moduleExtra' = [n \in ModuleLoggers |-> OrEmpty(extraData)]
  /\ extraSet' = [extraSet EXCEPT ![m] = extraData]
  /\ UNCHANGED <<currentConfig, timingUnits, now, console, sends, calls, last,
                 levelArg, bconfig, btimingUnits, started, defaultConfig,
                 logBuffer, flushTimer, flushArmed, currentContext,
                 btimingKeys, intervals>>

\* setExtra(extraData) of the module logger m
M_setExtra(m, extraData) ==
  /\ moduleExtra' = [moduleExtra EXCEPT ![m] = OrEmpty(extraData)]
  /\ extraSet' = [extraSet EXCEPT ![m] = extraData]
  /\ UNCHANGED <<currentConfig, timingUnits, now, console, sends, calls, last,
                 levelArg, bconfig, btimingUnits, started, defaultConfig,
                 logBuffer, flushTimer, flushArmed, currentContext,
                 btimingKeys, intervals>>

\* clearExtra() of the module logger m
M_clearExtra(m) ==
  /\ moduleExtra' = [moduleExtra EXCEPT ![m] = Obj(<<>>)]
  /\ extraSet' = [extraSet EXCEPT ![m] = Undefined]
  /\ UNCHANGED <<currentConfig, timingUnits, now, console, sends, calls, last,
                 levelArg, bconfig, btimingUnits, started, defaultConfig,
                 logBuffer, flushTimer, flushArmed, currentContext,
                 btimingKeys, intervals>>

\* log(text, extra), error(text, extra) and warning(text, extra) of the
\* module logger m: log(text, moduleName, combinedExtra)
M_LogCall(op, m, text, extra, level) ==
  /\ calls < MaxCalls
  /\ \E combinedExtra \in {ObjectAssignNew(moduleExtra[m], OrEmpty(extra))} :
     \E r \in {ConsoleOnly(config, text, m, combinedExtra, level)} :
       /\ console' = console \o r.lines
       /\ last' = Called(config, op, combinedExtra, r, FALSE, Undefined,
                         [logger |-> m, extra |-> extra, set |-> extraSet])
  /\ calls' = calls + 1
  /\ UNCHANGED <<currentConfig, timingUnits, now, sends, levelArg, bconfig,
                 btimingUnits, started, others>>

M_log(m, text, extra) == M_LogCall("log", m, text, extra, "INFORMATION")

M_error(m, text, extra) == M_LogCall("error", m, text, extra, "ERROR")

M_warning(m, text, extra) == M_LogCall("warning", m, text, extra, "WARNING")

\* logServer(text, extra) of the module logger m
M_logServer(m, text, extra, apexOk) ==
  /\ calls < MaxCalls
  /\ Len(sends) < MaxSends
  /\ \E combinedExtra \in {ObjectAssignNew(moduleExtra[m], OrEmpty(extra))} :
     \E r \in {ServerCall(config, text, m, combinedExtra, "INFORMATION")} :
     \E s \in {Sent(r, apexOk)} :
        /\ console' = console \o r.lines \o s.lines
        /\ sends' = s.sends
        /\ currentConfig' = s.config
        /\ last' = Called(config, "logServer", combinedExtra, r,
                          Len(s.sends) > Len(sends), Undefined,
                          [logger |-> m, extra |-> extra, set |-> extraSet])
  /\ calls' = calls + 1
  /\ UNCHANGED <<timingUnits, now, levelArg, bconfig, btimingUnits, started,
                 others>>

\* the extras given to setExtra
ModuleExtras ==
  {Undefined,
   Obj(<<[k |-> "version", v |-> Str("2.0")]>>),
   Obj(<<[k |-> "version", v |-> Str("1.0")],
         [k |-> "feature", v |-> Str("checkout")]>>)}

\* the extras given at the call sites
CallExtras ==
  {Undefined,
   Obj(<<[k |-> "version", v |-> Str("1.0")],
         [k |-> "feature", v |-> Str("checkout")]>>)}

NextModule ==
  \/ \E m \in ModuleLoggers, extraData \in ModuleExtras :
       M_setExtra(m, extraData)
  \/ \E m \in ModuleLoggers : M_clearExtra(m)
  \/ \E m \in ModuleLoggers, text \in Texts, extra \in CallExtras :
       M_log(m, text, extra)
  \/ \E m \in ModuleLoggers, text \in Texts, extra \in CallExtras :
       M_error(m, text, extra)
  \/ \E m \in ModuleLoggers, text \in Texts, extra \in CallExtras :
       M_warning(m, text, extra)
  \/ \E m \in ModuleLoggers, text \in Texts, extra \in CallExtras,
        apexOk \in BOOLEAN :
       M_logServer(m, text, extra, apexOk)

SpecModule == Init /\ [][NextModule]_vars

\* E merged with x, the keys of x winning: every key of either, with the
\* value x gives it if x has the key and the value E gives it otherwise
MergedExtra(E, x, combined) ==
  /\ KeysOf(combined) = KeysOf(OrEmpty(E)) \cup KeysOf(OrEmpty(x))
  /\ Len(combined.props) = Cardinality(KeysOf(combined))
  /\ \A k \in KeysOf(combined) :
       ValueOf(combined, k) = IF k \in KeysOf(OrEmpty(x))
                              THEN ValueOf(OrEmpty(x), k)
                              ELSE ValueOf(OrEmpty(E), k)

\* C14: a call through a module logger passes the logger's module name and
\* the extra of its latest setExtra (nothing after clearExtra) merged with
\* the call-site extra, call-site keys winning; the extra of another module
\* logger is not part of it
C14_PersistentExtra ==
  "logger" \in DOMAIN last.seen
    => /\ last.op \in {"log", "error", "warning", "logServer"}
       /\ MergedExtra(last.seen.set[last.seen.logger], last.seen.extra,
                      last.arg)
       /\ last.entry.module = last.seen.logger

\* a call through one module logger while the other holds an extra of its
\* own, with a call-site key that overrides a persistent one
C14_TwoLoggers ==
  /\ "logger" \in DOMAIN last.seen
  /\ \E other \in ModuleLoggers \ {last.seen.logger} :
       /\ last.seen.set[other] # Undefined
       /\ last.seen.set[last.seen.logger] # Undefined
       /\ last.seen.set[other] # last.seen.set[last.seen.logger]
  /\ last.seen.extra # Undefined
  /\ last.seen.extra # last.seen.set[last.seen.logger]
  /\ KeysOf(last.seen.extra) \cap KeysOf(last.seen.set[last.seen.logger]) # {}
  /\ last.wrote

(***************************************************************************)
(* The level name 'INFO': the buffered logger is configured with level     *)
(* names of the configuration guide and entries of each severity are       *)
(* logged.                                                                 *)
(***************************************************************************)
NextInfo ==
  \/ \E L \in {"INFO", "INFORMATION", "WARNING"} : B_configure([level |-> L])
  \/ \E b \in BOOLEAN : B_configure([enableConsole |-> b])
  \/ \E L \in {"INFO", "ERROR"} : B_setLevel(L)
  \/ \E text \in Texts, scope \in Modules,
        level \in {"", "WARNING", "ERROR"} :
       B_log(text, scope, Undefined, level)

SpecInfo == Init /\ [][NextInfo]_vars

\* C15: with the level configured as 'INFO', entries of severity
\* INFORMATION, WARNING and ERROR are emitted
C15_InfoLevel ==
  (/\ last.op = "log"
   /\ last.cfg.level = "INFO"
   /\ last.cfg.enableConsole
   /\ last.entry.level \in {"INFORMATION", "WARNING", "ERROR"})
    => last.wrote

(***************************************************************************)
(* logger-config.js: the presets.                                          *)
(***************************************************************************)
ENV_CONFIGS ==
  [development |-> [level |-> "INFORMATION",
                    enableConsole |-> TRUE,
                    enableServer |-> FALSE,
                    enableDataMasking |-> FALSE,
                    maxDataSize |-> 50000],
   testing |-> [level |-> "INFORMATION",
                enableConsole |-> TRUE,
                enableServer |-> TRUE,
                enableDataMasking |-> TRUE,
                maxDataSize |-> 20000],
   production |-> [level |-> "WARNING",
                   enableConsole |-> FALSE,
                   enableServer |-> TRUE,
                   enableDataMasking |-> TRUE,
                   sensitiveFields |->
                     <<"password", "token", "ssn", "credit_card", "api_key">>,
                   maxDataSize |-> 5000]]

\* ENV_CONFIGS[environment] || {}
EnvConfig(environment) ==
  IF environment \in DOMAIN ENV_CONFIGS THEN ENV_CONFIGS[environment]
  ELSE [k \in {} |-> 0]

\* getEnvConfig(environment)
getEnvConfig(environment) ==
  ObjectAssign(defaultConfig, EnvConfig(environment))

\* a call of getEnvConfig(environment)
callGetEnvConfig(environment) ==
  /\ last' = Called(config, "getEnvConfig", Str(environment), NoResult, FALSE,
                    getEnvConfig(environment), Undefined)
  /\ UNCHANGED <<currentConfig, timingUnits, now, console, sends, calls,
                 levelArg, bconfig, btimingUnits, started, others>>

Environments == {"development", "testing", "production", "staging"}

(***************************************************************************)
(* Configuring: configure is called with known and unknown keys, one or    *)
(* several at a time, and the presets are read.                            *)
(***************************************************************************)
FrameOptions ==
  {[level |-> L] : L \in {"ERROR", "WARNING"}}
    \cup {[enableConsole |-> b] : b \in BOOLEAN}
    \cup {[theme |-> t] : t \in {"dark", "light"}}
    \cup {[level |-> "ERROR", maxDataSize |-> 500, theme |-> "dark"]}

NextFrame ==
  \/ \E options \in FrameOptions : configure(options)
  \/ \E environment \in Environments : callGetEnvConfig(environment)

SpecFrame == Init /\ [][NextFrame]_vars

\* C16: configure(options) sets exactly the keys of options, unknown keys
\* included, and leaves every other key of the configuration as it was (so
\* the last call that names a key wins); what getEnvConfig returns is not
\* altered by it
C16_ConfigureFrame ==
  [][\A options \in FrameOptions : configure(options) =>
       /\ DOMAIN currentConfig' = DOMAIN currentConfig \cup DOMAIN options
       /\ \A k \in DOMAIN currentConfig' :
            currentConfig'[k] = IF k \in DOMAIN options THEN options[k]
                                ELSE currentConfig[k]
       /\ \A environment \in Environments :
            getEnvConfig(environment)' = getEnvConfig(environment)]_vars

\* an unknown key is stored, a key named twice holds its latest value and
\* a key never named holds its default, while the presets are the stored
\* ones
C16_LastWriterWins ==
  /\ "theme" \in DOMAIN currentConfig
  /\ currentConfig.theme = "light"
  /\ currentConfig.level = "WARNING"
  /\ currentConfig.maxDataSize = 500
  /\ currentConfig.retryCount = DEFAULT_CONFIG.retryCount
  /\ last.op = "getEnvConfig"
  /\ last.arg = Str("staging")
  /\ last.ret = DEFAULT_CONFIG

(***************************************************************************)
(* Retrying: entries are handed to the delivery client under several       *)
(* values of retryCount and retryDelayBase while the transport fails.      *)
(***************************************************************************)
RetryOptions ==
  {[retryCount |-> n] : n \in 1..MaxRetryCount}
    \cup {[retryDelayBase |-> d] : d \in {500, 1000}}

NextRetry ==
  \/ \E options \in RetryOptions : configure(options)
  \/ \E text \in Texts, module \in Modules, apexOk \in BOOLEAN :
       logServer(text, module, Undefined, apexOk)
  \/ \E i \in 1..MaxSends : onSuccess(i)
  \/ \E i \in 1..MaxSends : onError(i)
  \/ \E i \in 1..MaxSends, apexOk \in BOOLEAN : attemptSend(i, apexOk)

SpecRetry == Init /\ [][NextRetry]_vars

\* the configured base delay, 1000 ms when none is configured
ConfiguredDelayBase(cfg) ==
  IF "retryDelayBase" \in DOMAIN cfg THEN cfg.retryDelayBase ELSE 1000

\* C19: the k-th retry of an entry is scheduled with the delay
\* retryDelayBase * k, retryDelayBase being the configured base delay
C19_RetryDelay ==
  [][\A i \in 1..MaxSends :
       (i \in DOMAIN sends /\ sends'[i].scheduled > sends[i].scheduled)
         => sends'[i].delay
              = ConfiguredDelayBase(currentConfig) * sends'[i].retryAttempts]_vars

\* C20: an entry has at most one transport attempt in flight or scheduled;
\* an attempt is scheduled only in the step in which the attempt before it
\* reports failure; after the entry was delivered, or its fallback was
\* written, nothing more happens for it
C20_AttemptOrdering ==
  [][\A i \in 1..MaxSends : i \in DOMAIN sends' =>
       /\ sends'[i].inflight + sends'[i].scheduled <= 1
       /\ i \in DOMAIN sends =>
            /\ sends'[i].attempts > sends[i].attempts
                 => (sends[i].scheduled = 1 /\ sends'[i].scheduled = 0)
            /\ sends'[i].scheduled > sends[i].scheduled
                 => /\ sends[i].inflight = 1
                    /\ sends'[i].inflight = 0
                    /\ sends'[i].retryAttempts = sends[i].retryAttempts + 1
            /\ sends[i].st \in {"delivered", "failed", "threw"}
                 => sends'[i] = sends[i]]_vars

\* an entry whose first attempt failed and whose retry was delivered
C20_RetriedThenDelivered ==
  \E i \in DOMAIN sends :
    /\ sends[i].attempts = 2
    /\ sends[i].retryAttempts = 1
    /\ sends[i].st = "delivered"
    /\ sends[i].inflight = 0
    /\ sends[i].scheduled = 0

(***************************************************************************)
(* Several entries in the delivery client at once: each logServer call     *)
(* makes its own closure, and the callbacks and timers of the closures     *)
(* interleave freely.                                                      *)
(***************************************************************************)
ConcurrentOptions == {[retryCount |-> n] : n \in 1..MaxRetryCount}

NextConcurrent ==
  \/ \E options \in ConcurrentOptions : configure(options)
  \/ \E text \in Texts, module \in Modules, apexOk \in BOOLEAN :
       logServerWithin(MaxEntries, MaxEntries, text, module, Undefined, apexOk)
  \/ \E i \in 1..MaxEntries : onSuccess(i)
  \/ \E i \in 1..MaxEntries : onError(i)
  \/ \E i \in 1..MaxEntries, apexOk \in BOOLEAN : attemptSend(i, apexOk)

SpecConcurrent == Init /\ [][NextConcurrent]_vars

\* the failure flag as a boolean: config._serverError is undefined until set
FailureFlag(cfg) == "_serverError" \in DOMAIN cfg /\ cfg._serverError

\* C21: a logServer call hands its entry to the transport with a fresh
\* closure (one attempt made, no retry used, the retries of the configured
\* retryCount ahead) whether or not the failure flag is set; a step changes
\* the counters of at most one closure, and a new entry changes none; an
\* entry is given up only after its own maxRetries + 1 failed attempts.
C21_IndependentRetries ==
  [][/\ \A i \in 1..MaxEntries : \A j \in 1..MaxEntries :
          (i \in DOMAIN sends /\ j \in DOMAIN sends /\ i # j
             /\ sends'[i] # sends[i]) => sends'[j] = sends[j]
     /\ (calls' > calls /\ last'.op = "logServer" /\ ~last'.threw) =>
          /\ Len(sends') = Len(sends) + 1
          /\ SubSeq(sends', 1, Len(sends)) = sends
          /\ sends'[Len(sends')].attempts = 1
          /\ sends'[Len(sends')].retryAttempts = 0
          /\ sends'[Len(sends')].maxRetries = maxRetries(currentConfig)
     /\ \A i \in 1..MaxEntries :
          (i \in DOMAIN sends' /\ sends'[i].st = "failed") =>
            /\ sends'[i].retryAttempts = sends'[i].maxRetries + 1
            /\ sends'[i].attempts = sends'[i].maxRetries + 1]_vars

\* C21 witness: the latest logServer call was made with the failure flag set
\* and its entry went through its whole retry sequence, while another entry
\* handed over before it is still between two of its attempts
C21_SentUnderFlag ==
  /\ Len(sends) = 3
  /\ last.op = "logServer" /\ FailureFlag(last.cfg) /\ last.sent
  /\ sends[3].st = "failed"
  /\ sends[3].attempts = sends[3].maxRetries + 1
  /\ sends[2].st = "waiting"
  /\ sends[2].retryAttempts = 1

\* entry i reaches state st in this step
Becomes(i, st) ==
  /\ i \in DOMAIN sends'
  /\ sends'[i].st = st
  /\ (i \in DOMAIN sends => sends[i].st # st)

\* C22: a step in which an entry is delivered leaves the failure flag false;
\* a step in which an entry is given up (its retries exhausted, or the
\* transport call threw) leaves it true; every other step leaves the flag as
\* it was.  The flag is false initially, so in every reachable state it is
\* the outcome of the most recent terminal delivery event of any entry.
C22_FlagFollowsLastOutcome ==
  [][/\ (\E i \in 1..MaxEntries : Becomes(i, "delivered"))
          => ~FailureFlag(currentConfig')
     /\ (\E i \in 1..MaxEntries :
            Becomes(i, "failed") \/ Becomes(i, "threw"))
          => FailureFlag(currentConfig')
     /\ (\A i \in 1..MaxEntries :
            ~Becomes(i, "delivered") /\ ~Becomes(i, "failed")
              /\ ~Becomes(i, "threw"))
          => FailureFlag(currentConfig') = FailureFlag(currentConfig)]_vars

\* C22 witness: an entry was given up, which set the flag, and the delivery
\* of another entry has cleared it since
C22_ClearedAfterFailure ==
  /\ "_serverError" \in DOMAIN currentConfig
  /\ ~currentConfig._serverError
  /\ \E i \in DOMAIN sends : sends[i].st = "failed"
  /\ \E j \in DOMAIN sends : sends[j].st = "delivered"

(***************************************************************************)
(* Configuration changes while an entry is in the delivery client.         *)
(***************************************************************************)
MidFlightOptions ==
  {[enableServer |-> b] : b \in BOOLEAN}
    \cup {[retryCount |-> n] : n \in 1..MaxRetryCount}

NextMidFlight ==
  \/ \E options \in MidFlightOptions : configure(options)
  \/ \E text \in Texts, module \in Modules, apexOk \in BOOLEAN :
       logServer(text, module, Undefined, apexOk)
  \/ \E i \in 1..MaxSends : onSuccess(i)
  \/ \E i \in 1..MaxSends : onError(i)
  \/ \E i \in 1..MaxSends, apexOk \in BOOLEAN : attemptSend(i, apexOk)

SpecMidFlight == Init /\ [][NextMidFlight]_vars

\* C23: a step that changes enableServer or retryCount changes no closure (a
\* pending retry stays pending); a closure's maxRetries never changes after
\* its delivery started; a pending retry goes away only by being made; and
\* the error callback retries or gives up by the closure's own maxRetries,
\* so an entry is given up after exactly the maxRetries + 1 attempts fixed
\* when its delivery started.
C23_NoCancellation ==
  [][/\ (currentConfig'.enableServer # currentConfig.enableServer
          \/ currentConfig'.retryCount # currentConfig.retryCount)
          => sends' = sends
     /\ \A i \in 1..MaxSends :
          i \in DOMAIN sends =>
            /\ sends'[i].maxRetries = sends[i].maxRetries
            /\ sends'[i].scheduled < sends[i].scheduled
                 => sends'[i].attempts = sends[i].attempts + 1
            /\ Becomes(i, "waiting")
                 => sends'[i].retryAttempts <= sends[i].maxRetries
            /\ Becomes(i, "failed")
                 => sends'[i].attempts = sends[i].maxRetries + 1]_vars

\* C23 witness: an entry whose delivery started under retryCount 2 is in its
\* third attempt while the configuration says that server logging is
\* disabled and retryCount is 1
C23_RetriedWhileDisabled ==
  /\ ~currentConfig.enableServer
  /\ currentConfig.retryCount = 1
  /\ \E i \in DOMAIN sends :
       /\ sends[i].maxRetries = 2
       /\ sends[i].attempts = 3
       /\ sends[i].st = "inflight"

(***************************************************************************)
(* The queue of the buffered logger under small capacities: entries are    *)
(* enqueued, filtered out by the level, and flushed by capacity, by the    *)
(* timer and by flush().                                                   *)
(***************************************************************************)
QueueOptions ==
  {[bufferSize |-> n] : n \in {0, 1, 2, 100}}
    \cup {[level |-> L] : L \in {"ERROR", "INFORMATION"}}
    \cup {[enableServer |-> b] : b \in BOOLEAN}

NextQueue ==
  \/ \E options \in QueueOptions : B_configure(options)
  \/ \E text \in Texts, scope \in Modules, apexOk \in BOOLEAN :
       B_logServerWithin(MaxEntries, MaxEntries, text, scope, Undefined, "",
                         apexOk)
  \/ B_flushTimerFires(TRUE)
  \/ B_flush(TRUE)

SpecQueue == Init /\ [][NextQueue]_vars

\* a logServer call of the buffered logger returns in this step
LogServerReturns == calls' = calls + 1 /\ last'.op = "logServer"

\* C24 as stated: with buffering enabled, whenever a logServer call has just
\* returned the queue is strictly shorter than bufferSize.
C24_BelowCapacity ==
  [][(LogServerReturns /\ bconfig.enableBuffer)
       => Len(logBuffer') < bconfig'.bufferSize]_vars

\* C24, amended: with buffering enabled, a logServer call whose entry passes
\* the level filter appends the entry; if the length then reaches bufferSize
\* the whole queue is handed to the delivery client and left empty,
\* otherwise the queue is the old queue with the entry at its tail and is
\* strictly shorter than bufferSize.  A call whose entry is filtered out
\* leaves the queue as it was, whatever bufferSize now is.
C24_CapacityFlush ==
  [][(LogServerReturns /\ bconfig.enableBuffer) =>
       IF last'.threw \/ ~_shouldLog(bconfig, Str(last'.entry.level))
       THEN logBuffer' = logBuffer /\ sends' = sends
       ELSE IF Len(logBuffer) + 1 >= bconfig.bufferSize
       THEN /\ logBuffer' = <<>>
            /\ bconfig.enableServer
                 => /\ Len(sends') = Len(sends) + Len(logBuffer) + 1
                    /\ \A i \in 1..Len(logBuffer) :
                         sends'[Len(sends) + i].entry = logBuffer[i]
                    /\ sends'[Len(sends')].entry = last'.entry
       ELSE /\ logBuffer' = Append(logBuffer, last'.entry)
            /\ sends' = sends
            /\ Len(logBuffer') < bconfig'.bufferSize]_vars

\* C24 witness: under bufferSize 2 the latest logServer call filled the queue
\* and both entries went to the delivery client, leaving the queue empty
C24_FlushedAtCapacity ==
  /\ last.op = "logServer" /\ last.sent
  /\ last.cfg.bufferSize = 2
  /\ logBuffer = <<>>
  /\ Len(sends) = 2

(***************************************************************************)
(* The ways out of the queue: flush(), the flush timer, a flush at         *)
(* capacity and clearBuffer(), while server logging is switched on and     *)
(* off.                                                                    *)
(***************************************************************************)
DrainOptions ==
  {[enableServer |-> b] : b \in BOOLEAN} \cup {[bufferSize |-> n] : n \in {2, 100}}

NextDrain ==
  \/ \E options \in DrainOptions : B_configure(options)
  \/ \E text \in Texts, scope \in Modules, apexOk \in BOOLEAN :
       B_logServerWithin(MaxEntries, MaxEntries, text, scope, Undefined, "",
                         apexOk)
  \/ \E apexOk \in BOOLEAN : B_flushTimerFires(apexOk)
  \/ \E apexOk \in BOOLEAN : B_flush(apexOk)
  \/ B_clearBuffer

SpecDrain == Init /\ [][NextDrain]_vars

\* the number of entries this step appends to the queue before any flush
Enqueued ==
  IF /\ LogServerReturns /\ ~last'.threw /\ bconfig.enableBuffer
     /\ _shouldLog(bconfig, Str(last'.entry.level))
  THEN 1 ELSE 0

\* C25: in every step, the entries that leave the queue are as many as the
\* entries for which the step issues a transport attempt (a new closure of
\* the delivery client), so an enqueued entry is in the queue or was
\* attempted; a step that starts and ends with an empty queue and enqueues
\* nothing issues no attempt.
C25_LeavesOnlyByDispatch ==
  [][/\ Len(logBuffer) + Enqueued - Len(logBuffer')
          = Len(sends') - Len(sends)
     /\ \A k \in 1..(Len(sends') - Len(sends)) :
          sends'[Len(sends) + k].entry
            = Append(logBuffer, last'.entry)[k]]_vars

\* C26: with server logging and buffering enabled, a step that flushes the
\* queue (the entries of the queue are handed to the delivery client, by the
\* timer, by flush() or at capacity) ends with a flush timer pending.
C26_RearmedAfterFlush ==
  [][(/\ bconfig.enableServer /\ bconfig.enableBuffer
      /\ Len(sends') > Len(sends) /\ logBuffer' = <<>>)
       => flushTimer']_vars

(***************************************************************************)
(* Delivery under fair scheduling: the transport answers every call (one   *)
(* of the two callbacks of an attempt in flight is eventually invoked) and *)
(* every retry timer that was set fires.                                   *)
(***************************************************************************)
FairDelivery ==
  \A i \in 1..MaxSends :
    /\ WF_vars(onSuccess(i) \/ onError(i))
    /\ WF_vars(\E apexOk \in BOOLEAN : attemptSend(i, apexOk))

SpecTerminates == Init /\ [][NextDelivery]_vars /\ FairDelivery

\* entry i is done: delivered, given up after its retries, or given up
\* because the transport call threw
Terminal(i) ==
  i \in DOMAIN sends /\ sends[i].st \in {"delivered", "failed", "threw"}

\* C27: every entry handed to the delivery client eventually is delivered
\* or given up, it never has more than maxRetries + 1 attempts, and the
\* step that gives an entry up leaves the failure flag set.
C27_DeliveryTerminates ==
  /\ \A i \in 1..MaxSends : (i \in DOMAIN sends) ~> (Terminal(i))
  /\ [](\A i \in DOMAIN sends : sends[i].attempts <= sends[i].maxRetries + 1)
  /\ [][\A i \in 1..MaxSends :
          (Becomes(i, "failed") \/ Becomes(i, "threw"))
            => FailureFlag(currentConfig')]_vars

\* C27 witness: an entry given up after three failed attempts, with the
\* failure flag set
C27_GaveUp ==
  /\ FailureFlag(currentConfig)
  /\ \E i \in DOMAIN sends :
       /\ sends[i].st = "failed"
       /\ sends[i].attempts = 3
       /\ sends[i].retryAttempts = 3

(***************************************************************************)
(* The flush timer under fair scheduling: with server logging and          *)
(* buffering left enabled, entries are enqueued while time passes, and a   *)
(* flush timer that was set fires.                                         *)
(***************************************************************************)
SyncOptions ==
  {[bufferSize |-> n] : n \in {2, 100}}
    \cup {[level |-> L] : L \in {"ERROR", "INFORMATION"}}

NextSync ==
  \/ \E options \in SyncOptions : B_configure(options)
  \/ \E text \in Texts, scope \in Modules, apexOk \in BOOLEAN :
       B_logServerWithin(MaxEntries, MaxEntries, text, scope, Undefined, "",
                         apexOk)
  \/ \E apexOk \in BOOLEAN : B_flushTimerFires(apexOk)
  \/ \E apexOk \in BOOLEAN : B_flush(apexOk)
  \/ Tick

SpecSync ==
  /\ Init /\ [][NextSync]_vars
  /\ WF_vars(\E apexOk \in BOOLEAN : B_flushTimerFires(apexOk))

ThrewReport(con, e) ==
  /\ Len(con) >= 2
  /\ con[Len(con)] = Formatted(e)
  /\ con[Len(con) - 1].msg = "Logger server error:"

\* C29: a logServer call whose transport call throws returns normally and
\* leaves a closure with one attempt made, nothing in flight and no retry
\* scheduled, whatever retryCount is; the failure flag is set in the same
\* step, and the entry is reported on the console exactly when enableConsole
\* is true.  A transport call that throws when a retry timer fires ends the
\* entry the same way, and an entry ended this way never changes again.
C29_TransportException ==
  [][/\ \A text \in Texts, module \in Modules :
          logServer(text, module, Undefined, FALSE) =>
            /\ Len(sends') = Len(sends) + 1
            /\ sends'[Len(sends')].st = "threw"
            /\ sends'[Len(sends')].attempts = 1
            /\ sends'[Len(sends')].retryAttempts = 0
            /\ sends'[Len(sends')].inflight = 0
            /\ sends'[Len(sends')].scheduled = 0
            /\ FailureFlag(currentConfig')
            /\ last'.ret # Thrown /\ ~last'.threw
            /\ IF currentConfig.enableConsole
               THEN ThrewReport(console', sends'[Len(sends')].entry)
               ELSE console' = console
     /\ \A i \in 1..MaxSends :
          /\ (i \in DOMAIN sends /\ Becomes(i, "threw")) =>
               /\ FailureFlag(currentConfig')
               /\ sends'[i].scheduled = 0 /\ sends'[i].inflight = 0
               /\ sends'[i].attempts = sends[i].attempts + 1
               /\ IF currentConfig.enableConsole
                  THEN ThrewReport(console', sends'[i].entry)
                  ELSE console' = console
          /\ (i \in DOMAIN sends /\ sends[i].st = "threw")
               => sends'[i] = sends[i]]_vars

\* C29 witness: under retryCount 2 the transport call of the latest
\* logServer call threw; the call returned, one attempt was made, the flag
\* is set and the entry is the last line on the console
C29_ThrewOnce ==
  /\ last.op = "logServer" /\ last.sent /\ last.ret # Thrown
  /\ FailureFlag(currentConfig)
  /\ ThrewReport(console, last.entry)
  /\ \E i \in DOMAIN sends :
       /\ sends[i].st = "threw"
       /\ sends[i].maxRetries = 2
       /\ sends[i].attempts = 1

(***************************************************************************)
(* logger.js, lines 1304-1322: the context of the buffered logger.         *)
(***************************************************************************)
\* the object setContext stores: { scope, data: data || {}, timestamp }
Context(scope, data) ==
  Obj(<<[k |-> "scope", v |-> Str(scope)],
        [k |-> "data", v |-> IF Truthy(data) THEN data ELSE Obj(<<>>)],
        [k |-> "timestamp", v |-> Str(NumToString(now))]>>)

\* setContext(scope, data)
B_setContext(scope, data) ==
  /\ currentContext' = Context(scope, data)
  /\ UNCHANGED <<currentConfig, timingUnits, now, console, sends, calls, last,
                 levelArg, bconfig, btimingUnits, started, defaultConfig,
                 moduleExtra, extraSet, logBuffer, flushTimer, flushArmed,
                 btimingKeys, intervals>>

\* clearContext()
B_clearContext ==
  /\ currentContext' = Null
  /\ UNCHANGED <<currentConfig, timingUnits, now, console, sends, calls, last,
                 levelArg, bconfig, btimingUnits, started, defaultConfig,
                 moduleExtra, extraSet, logBuffer, flushTimer, flushArmed,
                 btimingKeys, intervals>>

\* the data object attemptSend gives to apex.server.process: x01 to x04;
\* x05 to x08 are the timestamp, user, page and session of the entry
B_Payload(logEntry) ==
  [x01 |-> logEntry.level,
   x02 |-> logEntry.text,
   x03 |-> IF logEntry.module = "" THEN "JS_LOGGER" ELSE logEntry.module,
   x04 |-> JSONstringify(IF Truthy(logEntry.extra) THEN logEntry.extra
                         ELSE Obj(<<>>))]

\* two contexts that differ in the value of the key password only, and one
\* longer than the smaller maxDataSize
SecretA == Obj(<<[k |-> "password", v |-> Str("abc")]>>)
SecretB == Obj(<<[k |-> "password", v |-> Str("xyz")]>>)
ContextData ==
  {Undefined, SecretA, Obj(<<[k |-> "note", v |-> Str(Repeat("x", 120))]>>)}

ContextOptions ==
  {[enableConsole |-> b] : b \in BOOLEAN} \cup {[maxDataSize |-> 100]}

NextContext ==
  \/ \E options \in ContextOptions : B_configure(options)
  \/ \E data \in ContextData : B_setContext("checkout", data)
  \/ B_clearContext
  \/ \E text \in Texts, scope \in Modules, extra \in {Undefined, SecretA} :
       B_log(text, scope, extra, "")
  \/ \E text \in Texts, scope \in Modules :
       B_logServer(text, scope, Undefined, "", TRUE)
  \/ B_flush(TRUE)

SpecContext == Init /\ [][NextContext]_vars

\* the context as the last console line shows it
ShownContext(con) == con[Len(con)].entry.context

\* C30: an entry created while a context is set holds the context object as
\* it was set, and none after clearContext; a console line of such an entry
\* shows JSON.stringify of the whole context, whatever sensitiveFields and
\* maxDataSize are; no field of the data sent to the server holds it; and a
\* call that writes to the console writes different lines under two
\* contexts that differ only in the value of the key password.
C30_ContextUnsanitized ==
  /\ [][(calls' = calls + 1 /\ last'.op \in {"log", "logServer"}) =>
          IF Truthy(currentContext)
          THEN /\ last'.entry.context = currentContext
               /\ last'.wrote =>
                    ShownContext(console') = JSONstringify(currentContext)
          ELSE "context" \notin DOMAIN last'.entry]_vars
  /\ [](\A i \in DOMAIN sends :
          /\ DOMAIN B_Payload(sends[i].entry) = {"x01", "x02", "x03", "x04"}
          /\ ~includes(B_Payload(sends[i].entry).x04.v, "checkout"))
  /\ [](bconfig.enableConsole =>
          B_ConsoleOnly(bconfig, Context("checkout", SecretA), "m", "app",
                        Undefined, "").lines
            # B_ConsoleOnly(bconfig, Context("checkout", SecretB), "m", "app",
                            Undefined, "").lines)

\* C30 witness: with masking enabled, the latest log call was given the
\* extra {password: 'abc'}, which it masked, under a context with the same
\* data, which the console line shows in clear; and an entry created under
\* a context is with the delivery client
C30_SecretOnConsole ==
  /\ last.op = "log" /\ last.wrote /\ last.arg = SecretA
  /\ bconfig.enableDataMasking
  /\ last.entry.extra.props[1].v = Str(MASKED)
  /\ console # <<>>
  /\ "context" \in DOMAIN console[Len(console)].entry
  /\ includes(ShownContext(console).v, "abc")
  /\ \E i \in DOMAIN sends : "context" \in DOMAIN sends[i].entry
====
